---- MODULE Spec2Model ----
(***************************************************************************)
(* A model of transl8-ai: the tree utilities (flattenKeys, getValueAtPath, *)
(* setValueAtPath, reorderToMatchSource), the diff engine                  *)
(* (compareTranslations), the content classifier and the translation       *)
(* orchestrator (translateDescriptionWithLinks, translateString,           *)
(* translateBatch, translateMissingKeys) and the translate command.        *)
(*                                                                         *)
(* Representation.                                                         *)
(*  - A string value is a sequence of one-character strings.               *)
(*  - A key path "a.b.c" is the sequence of its segments <<"a","b","c">>,  *)
(*    i.e. the result of keyPath.split("."); the empty string "" is        *)
(*    <<"">>.  For keys that hold no dot this is a bijection between       *)
(*    dotted strings and non-empty segment sequences.                      *)
(*  - A JSON/JS value is a record [t, v, len, k, c]: t its type tag,       *)
(*    v the characters of a string, k the own enumerable keys in           *)
(*    Object.keys order, c the values under those keys, and len the        *)
(*    length of an array (an index below len that is not in k is a hole).  *)
(***************************************************************************)
EXTENDS Integers, Sequences, FiniteSets, TLC

\* --------------------------------------------------------------------------
\* Bounds of the model
\* --------------------------------------------------------------------------
MaxItems == 4

MaxCap == 3

MaxNodes == 3

\* --------------------------------------------------------------------------
\* Sequences
\* --------------------------------------------------------------------------
Contains(seq, x) == \E i \in 1..Len(seq) : seq[i] = x

ToSet(seq) == {seq[i] : i \in 1..Len(seq)}

Last(seq) == seq[Len(seq)]

Front(seq) == SubSeq(seq, 1, Len(seq) - 1)

Min(a, b) == IF a < b THEN a ELSE b

RECURSIVE Concat(_)
Concat(seqs) ==
  IF seqs = <<>> THEN <<>> ELSE Head(seqs) \o Concat(Tail(seqs))

\* --------------------------------------------------------------------------
\* JS values
\* --------------------------------------------------------------------------
Digits == <<"0", "1", "2", "3", "4", "5", "6", "7", "8", "9">>

\* String(i) for an array index
IdxKey(i) == Digits[i + 1]

IsIndexKey(key) == \E i \in 1..Len(Digits) : Digits[i] = key

IndexOf(key) == (CHOOSE i \in 1..Len(Digits) : Digits[i] = key) - 1

Undefined == [t |-> "undef", v |-> <<>>, len |-> 0, k |-> <<>>, c |-> <<>>]

Null == [t |-> "null", v |-> <<>>, len |-> 0, k |-> <<>>, c |-> <<>>]

\* the outcome of a call that threw (a TypeError)
Thrown == [t |-> "throw", v |-> <<>>, len |-> 0, k |-> <<>>, c |-> <<>>]

Leaf(s) == [t |-> "str", v |-> s, len |-> 0, k |-> <<>>, c |-> <<>>]

Obj(ks, cs) == [t |-> "obj", v |-> <<>>, len |-> 0, k |-> ks, c |-> cs]

Arr(cs) ==
  [t |-> "arr", v |-> <<>>, len |-> Len(cs),
   k |-> [i \in 1..Len(cs) |-> IdxKey(i - 1)], c |-> cs]

EmptyObj == Obj(<<>>, <<>>)

\* typeof x === "object" && x !== null
IsObjectType(x) == x.t \in {"obj", "arr"}

\* typeof x === "object"
TypeofObject(x) == x.t \in {"obj", "arr", "null"}

\* Array.isArray(x)
IsArray(x) == x.t = "arr"

\* typeof x === "object" && x !== null && !Array.isArray(x)
IsPlainObject(x) == x.t = "obj"

\* key in x
HasKey(x, key) == Contains(x.k, key)

\* x[key] of an object or array (undefined for a key that is not there)
Lookup(x, key) ==
  IF HasKey(x, key)
  THEN x.c[CHOOSE i \in 1..Len(x.k) : x.k[i] = key]
  ELSE Undefined

\* where a new key goes in Object.keys order: index keys ascending, then
\* the other keys in insertion order
InsertPos(ks, key) ==
  IF IsIndexKey(key)
  THEN LET later == {i \in 1..Len(ks) :
                       ~IsIndexKey(ks[i]) \/ IndexOf(ks[i]) > IndexOf(key)}
       IN  IF later = {} THEN Len(ks) + 1
           ELSE CHOOSE i \in later : \A j \in later : i <= j
  ELSE Len(ks) + 1

InsertAt(seq, pos, x) ==
  SubSeq(seq, 1, pos - 1) \o <<x>> \o SubSeq(seq, pos, Len(seq))

\* x[key] = val on an object or array
Put(x, key, val) ==
  LET newLen == IF IsArray(x) /\ IsIndexKey(key) /\ IndexOf(key) + 1 > x.len
                THEN IndexOf(key) + 1 ELSE x.len
  IN  IF HasKey(x, key)
      THEN LET i == CHOOSE j \in 1..Len(x.k) : x.k[j] = key
           IN  [x EXCEPT !.c[i] = val]
      ELSE LET pos == InsertPos(x.k, key)
           IN  [x EXCEPT !.k = InsertAt(x.k, pos, key),
                         !.c = InsertAt(x.c, pos, val),
                         !.len = newLen]

\* --------------------------------------------------------------------------
\* Key paths
\* --------------------------------------------------------------------------
\* the string ""
EmptyPath == <<"">>

\* a string used as a condition: "" is falsy
Truthy(path) == path # EmptyPath

\* keyPath.endsWith(suffix) for the suffix "." + segs.join(".") (a glob
\* "*.x.y" with its leading "*" removed); the glob "*" leaves the suffix ""
\* and is the empty sequence of segments
EndsWith(keyPath, segs) ==
  IF segs = <<>> THEN TRUE
  ELSE /\ Len(keyPath) > Len(segs)
       /\ SubSeq(keyPath, Len(keyPath) - Len(segs) + 1, Len(keyPath)) = segs

getParentSection(keyPath) ==
  IF Len(keyPath) > 1 THEN Front(keyPath) ELSE EmptyPath

RECURSIVE FlattenFrom(_, _, _)
FlattenFrom(obj, prefix, i) ==
  IF i > Len(obj.k) THEN <<>>
  ELSE LET key == obj.k[i]
           fullPath == IF Truthy(prefix) THEN Append(prefix, key) ELSE <<key>>
           value == obj.c[i]
       IN  (IF IsObjectType(value)
            THEN FlattenFrom(value, fullPath, 1)
            ELSE <<fullPath>>)
           \o FlattenFrom(obj, prefix, i + 1)

flattenKeys(obj) == FlattenFrom(obj, EmptyPath, 1)

RECURSIVE GetFrom(_, _, _)
GetFrom(current, parts, i) ==
  IF i > Len(parts) THEN current
  ELSE IF ~IsObjectType(current) THEN Undefined
  ELSE LET next == Lookup(current, parts[i])
       IN  IF next = Undefined THEN Undefined
           ELSE GetFrom(next, parts, i + 1)

getValueAtPath(obj, keyPath) == GetFrom(obj, keyPath, 1)

\* a setValueAtPath that replaces every intermediate, also one that is there
RECURSIVE SetFromFresh(_, _, _, _, _)
SetFromFresh(current, parts, i, value, refCurrent) ==
  IF current = Null THEN Thrown
  ELSE IF i = Len(parts) THEN Put(current, parts[i], value)
  ELSE LET part == parts[i]
           refValue == IF refCurrent = Undefined THEN Undefined
                       ELSE Lookup(refCurrent, part)
           child == IF IsArray(refValue) THEN Arr(<<>>) ELSE EmptyObj
           nextRef == IF refCurrent # Undefined /\ TypeofObject(refValue)
                      THEN refValue ELSE Undefined
           below == SetFromFresh(child, parts, i + 1, value, nextRef)
       IN  IF below = Thrown THEN Thrown ELSE Put(current, part, below)

\* a setValueAtPath that makes every new intermediate a plain object
RECURSIVE SetFromNoRef(_, _, _, _, _)
SetFromNoRef(current, parts, i, value, refCurrent) ==
  IF current = Null THEN Thrown
  ELSE IF i = Len(parts) THEN Put(current, parts[i], value)
  ELSE LET part == parts[i]
           existing == Lookup(current, part)
           child == IF ~HasKey(current, part) \/ ~TypeofObject(existing)
                    THEN EmptyObj ELSE existing
           below == SetFromNoRef(child, parts, i + 1, value, refCurrent)
       IN  IF below = Thrown THEN Thrown ELSE Put(current, part, below)

\* the loop of setValueAtPath and its last assignment; `part in current` and
\* the assignment throw when current is null (typeof null is "object", so a
\* null intermediate is kept and stepped into)
RECURSIVE SetFrom(_, _, _, _, _)
SetFrom(current, parts, i, value, refCurrent) ==
  IF current = Null THEN Thrown
  ELSE IF i = Len(parts) THEN Put(current, parts[i], value)
  ELSE LET part == parts[i]
           existing == Lookup(current, part)
           refValue == IF refCurrent = Undefined THEN Undefined
                       ELSE Lookup(refCurrent, part)
           child == IF ~HasKey(current, part) \/ ~TypeofObject(existing)
                    THEN (IF IsArray(refValue) THEN Arr(<<>>) ELSE EmptyObj)
                    ELSE existing
           nextRef == IF refCurrent # Undefined /\ TypeofObject(refValue)
                      THEN refValue ELSE Undefined
           below == SetFrom(child, parts, i + 1, value, nextRef)
       IN  IF below = Thrown THEN Thrown ELSE Put(current, part, below)

setValueAtPath(obj, keyPath, value, referenceObj) ==
  SetFrom(obj, keyPath, 1, value, referenceObj)

getValueType(value) ==
  IF value = Undefined THEN "undefined"
  ELSE IF value.t = "str" THEN "string"
  ELSE IF IsObjectType(value) THEN "object"
  ELSE "string"

\* --------------------------------------------------------------------------
\* Structural reconciler
\* --------------------------------------------------------------------------
RECURSIVE reorderToMatchSource(_, _)
RECURSIVE MapItems(_, _, _, _)
RECURSIVE ReorderKeys(_, _, _, _)

\* sourceVal.map((sourceItem, i) => ...): the indices sourceVal holds, in
\* order; the result is an array of the same length
MapItems(sourceVal, contentVal, i, result) ==
  IF i >= sourceVal.len THEN result
  ELSE IF ~HasKey(sourceVal, IdxKey(i))
  THEN MapItems(sourceVal, contentVal, i + 1, result)
  ELSE LET sourceItem == Lookup(sourceVal, IdxKey(i))
           contentItem == Lookup(contentVal, IdxKey(i))
           item == IF IsObjectType(sourceItem) /\ IsObjectType(contentItem)
                   THEN reorderToMatchSource(sourceItem, contentItem)
                   ELSE contentItem
       IN  MapItems(sourceVal, contentVal, i + 1,
                    Put(result, IdxKey(i), item))

\* a loop of reorderToMatchSource whose leaf branch keeps the source value
ReorderKeysSourceFirst(source, content, i, result) ==
  IF i > Len(source.k) THEN result
  ELSE LET key == source.k[i]
           sourceVal == source.c[i]
           contentVal == Lookup(content, key)
           newVal ==
             IF IsPlainObject(sourceVal)
             THEN (IF IsPlainObject(contentVal)
                   THEN reorderToMatchSource(sourceVal, contentVal)
                   ELSE sourceVal)
             ELSE IF IsArray(sourceVal)
             THEN (IF IsArray(contentVal) /\ contentVal.len = sourceVal.len
                   THEN MapItems(sourceVal, contentVal, 0,
                                 [Arr(<<>>) EXCEPT !.len = sourceVal.len])
                   ELSE sourceVal)
             ELSE sourceVal
       IN  ReorderKeys(source, content, i + 1, Put(result, key, newVal))

ReorderKeys(source, content, i, result) ==
  IF i > Len(source.k) THEN result
  ELSE LET key == source.k[i]
           sourceVal == source.c[i]
           contentVal == Lookup(content, key)
           newVal ==
             IF IsPlainObject(sourceVal)
             THEN (IF IsPlainObject(contentVal)
                   THEN reorderToMatchSource(sourceVal, contentVal)
                   ELSE sourceVal)
             ELSE IF IsArray(sourceVal)
             THEN (IF IsArray(contentVal) /\ contentVal.len = sourceVal.len
                   THEN MapItems(sourceVal, contentVal, 0,
                                 [Arr(<<>>) EXCEPT !.len = sourceVal.len])
                   ELSE sourceVal)
             ELSE (IF contentVal # Undefined THEN contentVal ELSE sourceVal)
       IN  ReorderKeys(source, content, i + 1, Put(result, key, newVal))

reorderToMatchSource(source, content) ==
  ReorderKeys(source, content, 1, EmptyObj)

\* --------------------------------------------------------------------------
\* Diff engine
\* --------------------------------------------------------------------------
RECURSIVE TypeMismatchesFrom(_, _, _, _, _)
TypeMismatchesFrom(src, tgt, sourceKeys, targetKeySet, i) ==
  IF i > Len(sourceKeys) THEN <<>>
  ELSE LET key == sourceKeys[i]
           sourceType == getValueType(getValueAtPath(src, key))
           targetType == getValueType(getValueAtPath(tgt, key))
       IN  (IF /\ key \in targetKeySet
               /\ sourceType # targetType
               /\ sourceType # "undefined"
               /\ targetType # "undefined"
            THEN <<[path |-> key, sourceType |-> sourceType,
                    targetType |-> targetType]>>
            ELSE <<>>)
           \o TypeMismatchesFrom(src, tgt, sourceKeys, targetKeySet, i + 1)

compareTranslations(src, tgt) ==
  LET sourceKeys == flattenKeys(src)
      targetKeys == flattenKeys(tgt)
      sourceKeySet == ToSet(sourceKeys)
      targetKeySet == ToSet(targetKeys)
      missingInTarget == SelectSeq(sourceKeys, LAMBDA key : key \notin targetKeySet)
      extraInTarget == SelectSeq(targetKeys, LAMBDA key : key \notin sourceKeySet)
      typeMismatches == TypeMismatchesFrom(src, tgt, sourceKeys, targetKeySet, 1)
  IN  [missingInTarget |-> missingInTarget,
       extraInTarget |-> extraInTarget,
       typeMismatches |-> typeMismatches,
       totalKeysInSource |-> Len(sourceKeys),
       totalKeysInTarget |-> Len(targetKeys),
       missingCount |-> Len(missingInTarget),
       extraCount |-> Len(extraInTarget),
       typeMismatchCount |-> Len(typeMismatches)]

\* --------------------------------------------------------------------------
\* The trees the tree operations are checked on: every tree of at most
\* MaxNodes nodes below its root, over the keys of TreeKeys
\* --------------------------------------------------------------------------
TreeKeys == {"", "a"}

KeySeqs(m) ==
  {ks \in [1..m -> TreeKeys] : \A i, j \in 1..m : ks[i] = ks[j] => i = j}

RECURSIVE NodesOfSize(_, _)
RECURSIVE ForestsOfSize(_, _)

\* the non-empty sequences of values that hold n nodes in all
ForestsOfSize(n, val) ==
  UNION {{<<h>> \o r : h \in NodesOfSize(m, val),
                       r \in (IF m = n THEN {<<>>}
                              ELSE ForestsOfSize(n - m, val))} : m \in 1..n}

\* the values of exactly n nodes whose string leaves are val
NodesOfSize(n, val) ==
  IF n = 1 THEN {Leaf(val), EmptyObj, Arr(<<>>)}
  ELSE LET forests == ForestsOfSize(n - 1, val)
       IN  {Arr(f) : f \in forests}
           \cup UNION {{Obj(ks, f) : ks \in KeySeqs(Len(f))} : f \in forests}

RootTrees(val) ==
  {EmptyObj}
  \cup UNION {UNION {{Obj(ks, f) : ks \in KeySeqs(Len(f))}
                     : f \in ForestsOfSize(n, val)} : n \in 1..MaxNodes}

SourceTrees == RootTrees(<<"x">>)

ContentTrees == RootTrees(<<"y">>)

\* --------------------------------------------------------------------------
\* Strings
\* --------------------------------------------------------------------------
Quote == "\""

\* the backtick character (written out: a string cannot hold one)
Backtick == "backtick"

Space == " "

StartsWith(s, ch) == Len(s) >= 1 /\ s[1] = ch

EndsWithChar(s, ch) == Len(s) >= 1 /\ s[Len(s)] = ch

\* s.slice(n, -n)
SliceBoth(s, n) == SubSeq(s, n + 1, Len(s) - n)

\* s.startsWith of a triple backtick
StartsWithFence(s) ==
  Len(s) >= 3 /\ \A i \in 1..3 : s[i] = Backtick

\* s.endsWith of a triple backtick
EndsWithFence(s) ==
  Len(s) >= 3 /\ \A i \in (Len(s) - 2)..Len(s) : s[i] = Backtick

RECURSIVE TrimStart(_)
TrimStart(s) ==
  IF StartsWith(s, Space) THEN TrimStart(Tail(s)) ELSE s

RECURSIVE TrimEnd(_)
TrimEnd(s) ==
  IF EndsWithChar(s, Space) THEN TrimEnd(Front(s)) ELSE s

\* s.trim()
Trim(s) == TrimEnd(TrimStart(s))

cleanupTranslation(translated, original) ==
  LET originalStartsWithQuote == StartsWith(original, Quote)
      originalEndsWithQuote == EndsWithChar(original, Quote)
      r1 == IF /\ ~originalStartsWithQuote
               /\ ~originalEndsWithQuote
               /\ StartsWith(translated, Quote)
               /\ EndsWithChar(translated, Quote)
            THEN SliceBoth(translated, 1) ELSE translated
      r2 == IF /\ ~originalStartsWithQuote
               /\ StartsWith(r1, Quote)
               /\ Contains(original, Quote)
               /\ EndsWithChar(r1, Quote)
            THEN SliceBoth(r1, 1) ELSE r1
      r3 == IF StartsWith(r2, Backtick) /\ EndsWithChar(r2, Backtick)
            THEN SliceBoth(r2, 1) ELSE r2
      r4 == IF StartsWithFence(r3) /\ EndsWithFence(r3)
            THEN Trim(SliceBoth(r3, 3)) ELSE r3
  IN  r4

\* --------------------------------------------------------------------------
\* cleanupTranslation on its own: a provider response built from a text and
\* a wrapper, and the source value it translates
\* --------------------------------------------------------------------------
MaxTextLen == 3

TextChars == {"a", Space, Quote, Backtick}

Texts == UNION {[1..n -> TextChars] : n \in 0..MaxTextLen}

Fence == <<Backtick, Backtick, Backtick>>

\* what the provider may put around a text
Wrap(kind, text) ==
  CASE kind = "quotes" -> <<Quote>> \o text \o <<Quote>>
    [] kind = "backticks" -> <<Backtick>> \o text \o <<Backtick>>
    [] kind = "fence" -> Fence \o text \o Fence
    [] OTHER -> text

Originals == {<<"a">>, <<"a", Quote, "a">>, <<Quote, "a", Quote>>,
              <<"a", Quote>>}

\* --------------------------------------------------------------------------
\* JSON files
\* --------------------------------------------------------------------------
RECURSIVE JsonRoundTrip(_)
RECURSIVE RoundTripKeys(_, _, _)

\* the properties JSON.stringify writes: those whose value is not undefined
RoundTripKeys(value, i, result) ==
  IF i > Len(value.k) THEN result
  ELSE IF value.c[i] = Undefined
  THEN RoundTripKeys(value, i + 1, result)
  ELSE RoundTripKeys(value, i + 1,
                     Put(result, value.k[i], JsonRoundTrip(value.c[i])))

\* JSON.parse(JSON.stringify(value)): an array keeps its length, its holes
\* and undefined items become null and its other properties are dropped
JsonRoundTrip(value) ==
  IF IsArray(value)
  THEN Arr([i \in 1..value.len |->
              LET item == Lookup(value, IdxKey(i - 1))
              IN  IF item = Undefined THEN Null ELSE JsonRoundTrip(item)])
  ELSE IF IsPlainObject(value) THEN RoundTripKeys(value, 1, EmptyObj)
  ELSE value

deepClone(obj) == JsonRoundTrip(obj)

\* the file saveTranslationFile(filePath, content) leaves, as it loads again
saveTranslationFile(content) == JsonRoundTrip(content)

\* --------------------------------------------------------------------------
\* prune: removeKeyAtPath and cleanEmptyObjects
\* --------------------------------------------------------------------------
\* delete x[key]: an array keeps its length and gets a hole
Del(x, key) ==
  IF ~HasKey(x, key) THEN x
  ELSE LET i == CHOOSE j \in 1..Len(x.k) : x.k[j] = key
       IN  [x EXCEPT !.k = SubSeq(x.k, 1, i - 1) \o SubSeq(x.k, i + 1, Len(x.k)),
                     !.c = SubSeq(x.c, 1, i - 1) \o SubSeq(x.c, i + 1, Len(x.c))]

\* the loop of removeKeyAtPath and its delete; a null intermediate is stepped
\* into (typeof null is "object") and `part in current` or the delete throws
RECURSIVE RemoveFrom(_, _, _)
RemoveFrom(current, parts, i) ==
  IF current = Null THEN Thrown
  ELSE IF i = Len(parts) THEN Del(current, parts[i])
  ELSE LET part == parts[i]
           existing == Lookup(current, part)
       IN  IF ~HasKey(current, part) \/ ~TypeofObject(existing)
           THEN current
           ELSE LET below == RemoveFrom(existing, parts, i + 1)
                IN  IF below = Thrown THEN Thrown
                    ELSE Put(current, part, below)

removeKeyAtPath(obj, keyPath) == RemoveFrom(obj, keyPath, 1)

RECURSIVE cleanEmptyObjects(_)
RECURSIVE CleanFrom(_, _, _)

\* the loop of cleanEmptyObjects over Object.keys(obj) as it was on entry
CleanFrom(obj, keys, i) ==
  IF i > Len(keys) THEN obj
  ELSE LET value == Lookup(obj, keys[i])
       IN  IF IsObjectType(value)
           THEN LET cleaned == cleanEmptyObjects(value)
                IN  IF Len(cleaned.k) = 0
                    THEN CleanFrom(Del(obj, keys[i]), keys, i + 1)
                    ELSE CleanFrom(Put(obj, keys[i], cleaned), keys, i + 1)
           ELSE CleanFrom(obj, keys, i + 1)

cleanEmptyObjects(obj) == CleanFrom(obj, obj.k, 1)

\* the removals of the prune command, one removeKeyAtPath per extra key
RECURSIVE RemoveExtra(_, _, _)
RemoveExtra(prunedTarget, extraInTarget, i) ==
  IF i > Len(extraInTarget) THEN prunedTarget
  ELSE LET next == removeKeyAtPath(prunedTarget, extraInTarget[i])
       IN  IF next = Thrown THEN Thrown
           ELSE RemoveExtra(next, extraInTarget, i + 1)

\* --------------------------------------------------------------------------
\* Content classifier
\* --------------------------------------------------------------------------
\* the null of getDescriptionParentPath
NoPath == <<>>

isHrefKey(keyPath, hrefPatterns) ==
  \E i \in 1..Len(hrefPatterns) : EndsWith(keyPath, hrefPatterns[i])

\* patterns.length > 0 ? patterns[0].linksKey : "links"
LinksKey(patterns) ==
  IF Len(patterns) > 0 THEN patterns[1].linksKey ELSE "links"

\* patterns.length > 0 ? patterns[0].linkTextField : "text"
TextField(patterns) ==
  IF Len(patterns) > 0 THEN patterns[1].linkTextField ELSE "text"

getDescriptionParentPath(keyPath, patterns) ==
  IF Len(patterns) = 0
  THEN (IF ~EndsWith(keyPath, <<"description">>) THEN NoPath
        ELSE getParentSection(keyPath))
  ELSE IF \E i \in 1..Len(patterns) :
            EndsWith(keyPath, patterns[i].descriptionPattern)
  THEN getParentSection(keyPath)
  ELSE NoPath

\* links.every(item => object with a string under textField); every() skips
\* the holes of the array
EveryItemHasText(links, textField) ==
  \A i \in 0..(links.len - 1) :
    HasKey(links, IdxKey(i)) =>
      LET item == Lookup(links, IdxKey(i))
      IN  /\ IsObjectType(item)
          /\ HasKey(item, textField)
          /\ Lookup(item, textField).t = "str"

sectionHasLinks(obj, parentPath, patterns) ==
  LET parent == getValueAtPath(obj, parentPath)
  IN  IF ~IsObjectType(parent) THEN FALSE
      ELSE LET links == Lookup(parent, LinksKey(patterns))
           IN  /\ IsArray(links)
               /\ links.len > 0
               /\ EveryItemHasText(links, TextField(patterns))

getLinkTextKeyPaths(parentPath, linksCount, patterns) ==
  [i \in 1..linksCount |->
     parentPath \o <<LinksKey(patterns), IdxKey(i - 1), TextField(patterns)>>]

RECURSIVE LinkTextsFrom(_, _, _)
LinkTextsFrom(links, textField, i) ==
  IF i >= links.len THEN <<>>
  ELSE LET item == Lookup(links, IdxKey(i))
           text == IF IsObjectType(item) /\ HasKey(item, textField)
                   THEN Lookup(item, textField) ELSE Null
       IN  (IF text.t = "str" THEN <<text.v>> ELSE <<>>)
           \o LinkTextsFrom(links, textField, i + 1)

getLinkTextsFromSection(obj, parentPath, patterns) ==
  LET parent == getValueAtPath(obj, parentPath)
  IN  IF ~IsObjectType(parent) THEN <<>>
      ELSE LET links == Lookup(parent, LinksKey(patterns))
           IN  IF ~IsArray(links) THEN <<>>
               ELSE LinkTextsFrom(links, TextField(patterns), 0)

\* --------------------------------------------------------------------------
\* State
\* --------------------------------------------------------------------------
VARIABLES
  source,      \* the source tree (en.json)
  target,      \* the target tree as loaded
  report,      \* the DiscrepancyReport of the last compareTranslations
  merged,      \* the result of the last reorderToMatchSource
  mergedPrev,  \* the content the last reorderToMatchSource was given
  reorders,    \* how many times the content was reordered
  args,        \* the arguments a utility function is called with
  retval,      \* what that call returned (Undefined: not called yet)
  config,      \* the active Transl8Config
  options,     \* the options of the command line
  pc,          \* where the command and the orchestrator stand
  results,     \* translateMissingKeys: the results collected so far
  jointQueue,  \* translateMissingKeys: the description keys still to do
  savedFile,   \* the target file as written by the command (Undefined: not)
  calls,       \* every request sent to the provider so far, in order
  answers,     \* what the provider answered each joint request with
  contexts,    \* translateBatch: its contexts argument
  completed,   \* translateBatch: completed
  running,     \* translateBatch: running
  index,       \* translateBatch: index
  poolResults, \* translateBatch: its positional results array
  call,        \* translateBatch: where the promise chain of each item stands
  response,    \* translateBatch: what the provider answered for each item
  settled,     \* translateBatch: what translateString(contexts[i]) returned
  resolved,    \* translateBatch: whether its promise is resolved
  resolvedWith,\* translateBatch: the array its promise was resolved with
  progress     \* translateBatch: the onProgress calls so far

treeVars == <<source, target, report, merged, mergedPrev, reorders, args,
             retval>>

runVars == <<config, options, pc, results, jointQueue, savedFile, calls,
            answers>>

batchVars == <<contexts, completed, running, index, poolResults, call,
               response, settled, resolved, resolvedWith, progress>>

vars == <<treeVars, runVars, batchVars>>

NoReport == [missingInTarget |-> <<>>, extraInTarget |-> <<>>,
             typeMismatches |-> <<>>, totalKeysInSource |-> -1,
             totalKeysInTarget |-> -1, missingCount |-> -1,
             extraCount |-> -1, typeMismatchCount |-> -1]

\* --------------------------------------------------------------------------
\* Configuration
\* --------------------------------------------------------------------------
\* DEFAULT_CONFIG: a glob "*.href" is held as the segments of its suffix
DefaultConfig ==
  [hrefPatterns |-> <<<<"href">>>>,
   linkedContentPatterns |-> <<>>,
   concurrency |-> 50]

\* --------------------------------------------------------------------------
\* The parts of the state an operation does not use
\* --------------------------------------------------------------------------
IdleTree ==
  /\ report = NoReport
  /\ merged = Undefined
  /\ mergedPrev = Undefined
  /\ reorders = 0
  /\ args = <<>>
  /\ retval = Undefined

IdleRun ==
  /\ results = <<>>
  /\ jointQueue = <<>>
  /\ savedFile = Undefined
  /\ calls = <<>>
  /\ answers = <<>>

IdleBatch ==
  /\ contexts = <<>>
  /\ completed = 0
  /\ running = 0
  /\ index = 0
  /\ poolResults = <<>>
  /\ call = <<>>
  /\ response = <<>>
  /\ settled = <<>>
  /\ resolved = FALSE
  /\ resolvedWith = <<>>
  /\ progress = <<>>

\* --------------------------------------------------------------------------
\* The tree operations applied to arbitrary trees
\* --------------------------------------------------------------------------
MaxReorders == 2

InitTree ==
  /\ source \in SourceTrees
  /\ target \in ContentTrees
  /\ IdleTree
  /\ config = DefaultConfig
  /\ options = [dryRun |-> FALSE]
  /\ pc = "tree"
  /\ IdleRun
  /\ IdleBatch

\* compareTranslations(source, target)
Compare ==
  /\ pc = "tree"
  /\ report = NoReport
  /\ reorders = 0
  /\ report' = compareTranslations(source, target)
  /\ UNCHANGED <<source, target, merged, mergedPrev, reorders, args, retval>>
  /\ UNCHANGED <<runVars, batchVars>>

\* content = reorderToMatchSource(source, content), starting from target
Reorder ==
  /\ pc = "tree"
  /\ report = NoReport
  /\ reorders < MaxReorders
  /\ LET content == IF reorders = 0 THEN target ELSE merged
     IN  /\ mergedPrev' = content
         /\ merged' = reorderToMatchSource(source, content)
  /\ reorders' = reorders + 1
  /\ UNCHANGED <<source, target, report, args, retval>>
  /\ UNCHANGED <<runVars, batchVars>>

NextTree == Compare \/ Reorder

SpecTree == InitTree /\ [][NextTree]_vars

\* --------------------------------------------------------------------------
\* reorderToMatchSource applied to the pairs of trees of at most MaxPairNodes
\* nodes together
\* --------------------------------------------------------------------------
MaxPairNodes == 5

\* the trees of exactly n nodes below the root
RootTreesOfSize(n, val) ==
  IF n = 0 THEN {EmptyObj}
  ELSE UNION {{Obj(ks, f) : ks \in KeySeqs(Len(f))}
                : f \in ForestsOfSize(n, val)}

InitReorder ==
  /\ \E n \in 0..MaxNodes, m \in 0..MaxNodes :
       /\ n + m <= MaxPairNodes
       /\ source \in RootTreesOfSize(n, <<"x">>)
       /\ target \in RootTreesOfSize(m, <<"y">>)
  /\ IdleTree
  /\ config = DefaultConfig
  /\ options = [dryRun |-> FALSE]
  /\ pc = "tree"
  /\ IdleRun
  /\ IdleBatch

\* one call of reorderToMatchSource(source, target)
ReorderOnce ==
  /\ reorders = 0
  /\ Reorder

NextReorder == ReorderOnce

SpecReorder == InitReorder /\ [][NextReorder]_vars


\* --------------------------------------------------------------------------
\* The prune command on every pair of trees of at most MaxPairNodes nodes
\* --------------------------------------------------------------------------
InitPrune ==
  /\ \E n \in 0..MaxNodes, m \in 0..MaxNodes :
       /\ n + m <= MaxPairNodes
       /\ source \in RootTreesOfSize(n, <<"x">>)
       /\ target \in RootTreesOfSize(m, <<"y">>)
  /\ IdleTree
  /\ config = DefaultConfig
  /\ options \in {[command |-> "prune", dryRun |-> d] : d \in BOOLEAN}
  /\ pc = "start"
  /\ IdleRun
  /\ IdleBatch

\* the prune command: compare, return when nothing is extra or on --dry-run,
\* else remove the extra keys from a clone, clean it, reorder it and save it
PruneCommand ==
  /\ pc = "start"
  /\ options.command = "prune"
  /\ report' = compareTranslations(source, target)
  /\ IF report'.extraInTarget = <<>> \/ options.dryRun
     THEN /\ pc' = "done"
          /\ UNCHANGED savedFile
     ELSE LET prunedTarget == RemoveExtra(deepClone(target),
                                         report'.extraInTarget, 1)
          IN  IF prunedTarget = Thrown
              THEN /\ pc' = "failed"
                   /\ UNCHANGED savedFile
              ELSE /\ savedFile' = saveTranslationFile(
                                     reorderToMatchSource(
                                       source, cleanEmptyObjects(prunedTarget)))
                   /\ pc' = "done"
  /\ UNCHANGED <<source, target, merged, mergedPrev, reorders, args, retval>>
  /\ UNCHANGED <<config, options, results, jointQueue, calls, answers,
                 batchVars>>

NextPrune == PruneCommand

SpecPrune == InitPrune /\ [][NextPrune]_vars

\* --------------------------------------------------------------------------
\* setValueAtPath applied to arbitrary objects, paths and references
\* --------------------------------------------------------------------------
MaxPathLen == 3

\* the values up to two levels deep over the key "a" and the index 0, null
\* among the leaves
SetLeaves == {Leaf(<<"y">>), Null, EmptyObj, Arr(<<>>)}

SetValues ==
  SetLeaves
  \cup {Obj(<<"a">>, <<v>>) : v \in SetLeaves}
  \cup {Arr(<<v>>) : v \in SetLeaves}

SetObjects == {EmptyObj} \cup {Obj(<<"a">>, <<v>>) : v \in SetValues}

SetPaths == UNION {[1..n -> {"a", "0"}] : n \in 1..MaxPathLen}

InitSet ==
  /\ source \in SetObjects \cup {Undefined}
  /\ target \in SetObjects
  /\ report = NoReport
  /\ merged = Undefined
  /\ mergedPrev = Undefined
  /\ reorders = 0
  /\ args \in {[keyPath |-> p, value |-> Leaf(<<"v">>)] : p \in SetPaths}
  /\ retval = Undefined
  /\ config = DefaultConfig
  /\ options = [dryRun |-> FALSE]
  /\ pc = "set"
  /\ IdleRun
  /\ IdleBatch

\* setValueAtPath(target, keyPath, value, source); retval is the object after
\* the call, or Thrown
SetValue ==
  /\ pc = "set"
  /\ retval' = setValueAtPath(target, args.keyPath, args.value, source)
  /\ pc' = "setDone"
  /\ UNCHANGED <<source, target, report, merged, mergedPrev, reorders, args>>
  /\ UNCHANGED <<config, options, results, jointQueue, savedFile, calls,
                 answers, batchVars>>

NextSet == SetValue

SpecSet == InitSet /\ [][NextSet]_vars

\* --------------------------------------------------------------------------
\* Similar examples: tokenize, similarityScore, findSimilarExamples
\* --------------------------------------------------------------------------
STOP_WORDS ==
  {<<"a">>, <<"a", "n">>, <<"t", "h", "e">>, <<"t", "o">>, <<"o", "f">>,
   <<"i", "n">>, <<"o", "n">>, <<"f", "o", "r">>, <<"i", "s">>,
   <<"a", "r", "e">>, <<"w", "a", "s">>, <<"b", "e">>, <<"o", "r">>,
   <<"a", "n", "d">>, <<"i", "t">>, <<"b", "y">>, <<"a", "t">>,
   <<"a", "s">>, <<"d", "o">>, <<"i", "f">>, <<"n", "o">>,
   <<"n", "o", "t">>, <<"y", "o", "u", "r">>, <<"y", "o", "u">>,
   <<"w", "e">>, <<"o", "u", "r">>, <<"m", "y">>, <<"t", "h", "i", "s">>,
   <<"t", "h", "a", "t">>, <<"w", "i", "t", "h">>, <<"f", "r", "o", "m">>,
   <<"h", "a", "s">>, <<"h", "a", "v", "e">>, <<"w", "i", "l", "l">>,
   <<"c", "a", "n">>, <<"a", "l", "l">>, <<"b", "u", "t">>, <<"u", "p">>,
   <<"o", "u", "t">>, <<"s", "o">>, <<"b", "e", "e", "n">>,
   <<"i", "t", "s">>, <<"t", "h", "e", "y">>, <<"t", "h", "e", "i", "r">>,
   <<"m", "o", "r", "e">>, <<"a", "b", "o", "u", "t">>,
   <<"p", "l", "e", "a", "s", "e">>, <<"y", "e", "t">>}

UpperLetters ==
  <<"A", "B", "C", "D", "E", "F", "G", "H", "I", "J", "K", "L", "M",
    "N", "O", "P", "Q", "R", "S", "T", "U", "V", "W", "X", "Y", "Z">>

LowerLetters ==
  <<"a", "b", "c", "d", "e", "f", "g", "h", "i", "j", "k", "l", "m",
    "n", "o", "p", "q", "r", "s", "t", "u", "v", "w", "x", "y", "z">>

\* \s of a regular expression, as far as the strings here use it
Whitespace == {Space, "\t", "\n"}

\* String.prototype.toLowerCase on one character
toLowerCase(ch) ==
  IF \E i \in 1..Len(UpperLetters) : UpperLetters[i] = ch
  THEN LowerLetters[CHOOSE i \in 1..Len(UpperLetters) : UpperLetters[i] = ch]
  ELSE ch

\* .replace(/[^a-z0-9\s]/g, " ") on one character
ReplaceSymbol(ch) ==
  IF Contains(LowerLetters, ch) \/ Contains(Digits, ch) \/ ch \in Whitespace
  THEN ch
  ELSE Space

\* .split(/\s+/): the pieces between the runs of whitespace, the empty
\* pieces at the ends included
RECURSIVE SplitFrom(_, _, _, _, _)
SplitFrom(s, i, cur, acc, inGap) ==
  IF i > Len(s) THEN Append(acc, cur)
  ELSE IF s[i] \in Whitespace
       THEN IF inGap THEN SplitFrom(s, i + 1, cur, acc, TRUE)
            ELSE SplitFrom(s, i + 1, <<>>, Append(acc, cur), TRUE)
       ELSE SplitFrom(s, i + 1, Append(cur, s[i]), acc, FALSE)

\* tokenize(str): the Set of its significant lowercase words
tokenize(str) ==
  LET replaced == [i \in 1..Len(str) |-> ReplaceSymbol(toLowerCase(str[i]))]
      words == SplitFrom(replaced, 1, <<>>, <<>>, FALSE)
  IN  {words[i] : i \in {j \in 1..Len(words) :
                           Len(words[j]) > 1 /\ words[j] \notin STOP_WORDS}}

\* a score overlap / union is held as the fraction itself
Score(n, d) == [num |-> n, den |-> d]

\* x >= y on two scores
ScoreGeq(x, y) == x.num * y.den >= y.num * x.den

\* similarityScore with a.size + b.size as the union
similarityScoreSum(a, b) ==
  IF Cardinality(a) = 0 \/ Cardinality(b) = 0 THEN Score(0, 1)
  ELSE LET overlap == Cardinality({word \in a : word \in b})
       IN  IF overlap = 0 THEN Score(0, 1)
           ELSE Score(overlap, Cardinality(a) + Cardinality(b))

similarityScore(a, b) ==
  IF Cardinality(a) = 0 \/ Cardinality(b) = 0 THEN Score(0, 1)
  ELSE LET overlap == Cardinality({word \in a : word \in b})
       IN  IF overlap = 0 THEN Score(0, 1)
           ELSE LET union == Cardinality(a) + Cardinality(b) - overlap
                IN  Score(overlap, union)

\* one step of scored.sort((a, b) => b.score - a.score) with ties put first
InsertSortedBeforeTies(sorted, item) ==
  LET above == {j \in 1..Len(sorted) :
                  ~ScoreGeq(item.score, sorted[j].score)}
  IN  InsertAt(sorted, Cardinality(above) + 1, item)

\* one step of scored.sort((a, b) => b.score - a.score): the sort is stable,
\* so an item goes behind every earlier item whose score is not lower
InsertSorted(sorted, item) ==
  LET before == {j \in 1..Len(sorted) :
                   ScoreGeq(sorted[j].score, item.score)}
  IN  InsertAt(sorted, Cardinality(before) + 1, item)

RECURSIVE SortFrom(_, _, _)
SortFrom(scored, i, sorted) ==
  IF i > Len(scored) THEN sorted
  ELSE SortFrom(scored, i + 1, InsertSorted(sorted, scored[i]))

\* the loop of findSimilarExamples over the entries of pairIndex
RECURSIVE ScoredFrom(_, _, _, _, _, _)
ScoredFrom(sourceTokens, currentKey, pairIndex, minScore, i, scored) ==
  IF i > Len(pairIndex) THEN scored
  ELSE LET key == pairIndex[i].key
           pair == pairIndex[i].pair
           score == similarityScore(sourceTokens, tokenize(pair.english))
       IN  IF key = currentKey
           THEN ScoredFrom(sourceTokens, currentKey, pairIndex, minScore,
                           i + 1, scored)
           ELSE IF ScoreGeq(score, minScore)
           THEN ScoredFrom(sourceTokens, currentKey, pairIndex, minScore,
                           i + 1,
                           Append(scored,
                                  [score |-> score,
                                   entry |->
                                     [englishValue |-> pair.english,
                                      translatedValue |-> pair.translated,
                                      key |-> pair.key]]))
           ELSE ScoredFrom(sourceTokens, currentKey, pairIndex, minScore,
                           i + 1, scored)

\* the defaults of the parameters limit and minScore
DefaultLimit == 3

DefaultMinScore == Score(15, 100)

findSimilarExamples(englishValue, currentKey, pairIndex, limit, minScore) ==
  LET sourceTokens == tokenize(englishValue)
  IN  IF Cardinality(sourceTokens) = 0 THEN <<>>
      ELSE LET scored == ScoredFrom(sourceTokens, currentKey, pairIndex,
                                    minScore, 1, <<>>)
               sorted == SortFrom(scored, 1, <<>>)
               top == SubSeq(sorted, 1, Min(limit, Len(sorted)))
           IN  [j \in 1..Len(top) |-> top[j].entry]

\* what the similarity operations are applied to
MaxPairs == 3

MaxWords == 4

Phrases ==
  {<<" ", "S", "a", "v", "e", "\t", "F", "I", "L", "E", "!">>,
   <<"s", "a", "v", "e", " ", "t", "h", "e", " ", "f", "i", "l", "e", " ",
     "n", "o", "w">>,
   <<"a", " ", "t", "h", "e", ".">>,
   <<"s", "a", "v", "e", "-", "a", "1", ",", "b", "2", ",", "c", "3", ",",
     "d", "4", ",", "e", "5", ",", "f", "6", " ", " ", "x">>}

PairKey(i) == <<"k", IdxKey(i)>>

\* a pair index as buildTranslationPairIndex fills it: entry i of the Map is
\* [key, {english, translated, key}]
PairIndexes ==
  UNION {{[i \in 1..n |->
             [key |-> PairKey(i),
              pair |-> [english |-> e[i], translated |-> <<"t", IdxKey(i)>>,
                        key |-> PairKey(i)]]] :
            e \in [1..n -> Phrases]} : n \in 0..MaxPairs}

Vocabulary == {<<"w", IdxKey(i)>> : i \in 1..MaxWords}

InitSimilar ==
  /\ source = Undefined
  /\ target = Undefined
  /\ report = NoReport
  /\ merged = Undefined
  /\ mergedPrev = Undefined
  /\ reorders = 0
  /\ \/ args \in {[op |-> "score", a |-> a, b |-> b] :
                    a \in SUBSET Vocabulary, b \in SUBSET Vocabulary}
     \/ args \in {[op |-> "find", englishValue |-> e, currentKey |-> k,
                   pairIndex |-> p, limit |-> l, minScore |-> m] :
                    e \in Phrases,
                    k \in {PairKey(2), <<"other">>},
                    p \in PairIndexes,
                    l \in 1..DefaultLimit,
                    m \in {DefaultMinScore, Score(1, 3)}}
  /\ retval = Undefined
  /\ config = DefaultConfig
  /\ options = [dryRun |-> FALSE]
  /\ pc = "similar"
  /\ IdleRun
  /\ IdleBatch

\* similarityScore(a, b) and similarityScore(b, a)
SimilarityScore ==
  /\ pc = "similar"
  /\ args.op = "score"
  /\ retval' = [ab |-> similarityScore(args.a, args.b),
                ba |-> similarityScore(args.b, args.a)]
  /\ pc' = "scoreDone"
  /\ UNCHANGED <<source, target, report, merged, mergedPrev, reorders, args>>
  /\ UNCHANGED <<config, options, results, jointQueue, savedFile, calls,
                 answers, batchVars>>

\* findSimilarExamples(englishValue, currentKey, pairIndex, limit, minScore)
FindSimilarExamples ==
  /\ pc = "similar"
  /\ args.op = "find"
  /\ retval' = findSimilarExamples(args.englishValue, args.currentKey,
                                   args.pairIndex, args.limit, args.minScore)
  /\ pc' = "findDone"
  /\ UNCHANGED <<source, target, report, merged, mergedPrev, reorders, args>>
  /\ UNCHANGED <<config, options, results, jointQueue, savedFile, calls,
                 answers, batchVars>>

NextSimilar == SimilarityScore \/ FindSimilarExamples

SpecSimilar == InitSimilar /\ [][NextSimilar]_vars

\* cleanupTranslation called once on a response and its source value
InitCleanup ==
  /\ source = Undefined
  /\ target = Undefined
  /\ report = NoReport
  /\ merged = Undefined
  /\ mergedPrev = Undefined
  /\ reorders = 0
  /\ args \in {[translated |-> Wrap(kind, text), original |-> original] :
                 kind \in {"none", "quotes", "backticks", "fence"},
                 text \in Texts, original \in Originals}
  /\ retval = Undefined
  /\ config = DefaultConfig
  /\ options = [dryRun |-> FALSE]
  /\ pc = "cleanup"
  /\ IdleRun
  /\ IdleBatch

\* cleanupTranslation(translated, original)
CleanupTranslation ==
  /\ pc = "cleanup"
  /\ retval' = cleanupTranslation(args.translated, args.original)
  /\ pc' = "cleanupDone"
  /\ UNCHANGED <<source, target, report, merged, mergedPrev, reorders, args>>
  /\ UNCHANGED <<config, options, results, jointQueue, savedFile, calls,
                 answers, batchVars>>

NextCleanup == CleanupTranslation

SpecCleanup == InitCleanup /\ [][NextCleanup]_vars


\* --------------------------------------------------------------------------
\* Configuration: loadConfig merges the defaults, .transl8rc.json, the
\* environment and the command line. A JavaScript value is a record: a
\* number is the fraction num/den (NaN has den = 0), a string holds its
\* characters.
\* --------------------------------------------------------------------------
JsAbsent == [js |-> "undefined", num |-> 0, den |-> 1, s |-> <<>>]

JsNumber(n, d) == [js |-> "number", num |-> n, den |-> d, s |-> <<>>]

JsNaN == JsNumber(0, 0)

JsString(str) == [js |-> "string", num |-> 0, den |-> 1, s |-> str]

isNaN(x) == x.js = "number" /\ x.den = 0

\* the truthiness of a number, a string or undefined
JsTruthy(x) ==
  CASE x.js = "number" -> ~isNaN(x) /\ x.num # 0
    [] x.js = "string" -> x.s # <<>>
    [] OTHER -> FALSE

\* the digits parseInt reads from position i on, as a number
RECURSIVE DigitsFrom(_, _, _, _)
DigitsFrom(str, i, seen, acc) ==
  IF i <= Len(str) /\ IsIndexKey(str[i])
  THEN DigitsFrom(str, i + 1, TRUE, 10 * acc + IndexOf(str[i]))
  ELSE [seen |-> seen, value |-> acc]

\* parseInt(str, 10): leading whitespace, a sign, then digits up to the
\* first character that is none; NaN when there is no digit
parseInt(str) ==
  LET body == TrimStart(str)
      signed == Len(body) >= 1 /\ body[1] \in {"-", "+"}
      read == DigitsFrom(body, IF signed THEN 2 ELSE 1, FALSE, 0)
  IN  IF ~read.seen THEN JsNaN
      ELSE IF signed /\ body[1] = "-" THEN JsNumber(0 - read.value, 1)
      ELSE JsNumber(read.value, 1)

\* the concurrency of parseConfigFile's result
parseConfigFile(file) ==
  IF file.concurrency.js = "number" THEN file.concurrency ELSE JsAbsent

\* the concurrency of getEnvOverrides' result
getEnvOverrides(env) ==
  IF JsTruthy(env)
  THEN LET n == parseInt(env.s)
       IN  IF ~isNaN(n) /\ n.num > 0 THEN n ELSE JsAbsent
  ELSE JsAbsent

\* the --concurrency option as commander hands it over: parseInt of its
\* argument
ConcurrencyOption(flag) ==
  IF flag.js = "string" THEN parseInt(flag.s) ELSE JsAbsent

\* the concurrency of loadConfig's result
loadConfig(file, env, flag) ==
  LET defaults == JsNumber(DefaultConfig.concurrency, 1)
      fileConfig == IF file.exists THEN parseConfigFile(file) ELSE JsAbsent
      afterFile == IF fileConfig # JsAbsent THEN fileConfig ELSE defaults
      envConfig == getEnvOverrides(env)
      afterEnv == IF envConfig # JsAbsent THEN envConfig ELSE afterFile
      overrides == ConcurrencyOption(flag)
  IN  IF JsTruthy(overrides) THEN overrides ELSE afterEnv

\* how many items the first runNext of translateBatch starts
RECURSIVE FirstDispatch(_, _, _)
FirstDispatch(concurrency, items, started) ==
  IF started * concurrency.den < concurrency.num /\ started < items
  THEN FirstDispatch(concurrency, items, started + 1)
  ELSE started

ConfigFiles ==
  {[exists |-> FALSE, concurrency |-> JsAbsent]}
  \cup {[exists |-> TRUE, concurrency |-> c] :
          c \in {JsAbsent, JsString(<<"4">>), JsNumber(0 - 1, 1),
                 JsNumber(0, 1), JsNumber(1, 1), JsNumber(5, 2),
                 JsNumber(8, 1)}}

EnvValues ==
  {JsAbsent}
  \cup {JsString(str) :
          str \in {<<>>, <<"0">>, <<"-", "2">>, <<"3">>, <<"a", "b">>,
                   <<"7", "x">>, <<Space, "4">>}}

FlagValues ==
  {JsAbsent}
  \cup {JsString(str) :
          str \in {<<"0">>, <<"-", "3">>, <<"2">>, <<"x">>,
                   <<"2", ".", "5">>}}

InitConfig ==
  /\ source = Undefined
  /\ target = Undefined
  /\ report = NoReport
  /\ merged = Undefined
  /\ mergedPrev = Undefined
  /\ reorders = 0
  /\ args \in {[file |-> f, env |-> e, flag |-> c, items |-> n] :
                 f \in ConfigFiles, e \in EnvValues, c \in FlagValues,
                 n \in 1..2}
  /\ retval = Undefined
  /\ config = DefaultConfig
  /\ options = [dryRun |-> FALSE]
  /\ pc = "config"
  /\ IdleRun
  /\ IdleBatch

\* loadConfig in the preAction hook, then the first runNext of a
\* translateBatch over args.items contexts
LoadConfig ==
  /\ pc = "config"
  /\ LET concurrency == loadConfig(args.file, args.env, args.flag)
     IN  retval' = [concurrency |-> concurrency,
                    started |-> FirstDispatch(concurrency, args.items, 0)]
  /\ pc' = "configDone"
  /\ UNCHANGED <<source, target, report, merged, mergedPrev, reorders, args>>
  /\ UNCHANGED <<config, options, results, jointQueue, savedFile, calls,
                 answers, batchVars>>

NextConfig == LoadConfig

SpecConfig == InitConfig /\ [][NextConfig]_vars

\* --------------------------------------------------------------------------
\* translateString and translateBatch
\* --------------------------------------------------------------------------
NoResponse == [status |-> "none", text |-> <<>>]

NoResult == [key |-> <<>>, originalValue |-> <<>>, translatedValue |-> <<>>]

\* what the provider may answer a translateString request with (output_text)
ProviderTexts == {<<"H">>, <<Quote, "H", Quote>>, <<Space, "H">>}

\* a request to the provider: the texts it holds and the keys they are the
\* source values of
StringRequest(context) ==
  [fn |-> "translateString", keys |-> <<context.key>>,
   texts |-> <<context.englishValue>>]

\* translateString after its request was answered with output_text = raw
translateString(context, raw) ==
  [key |-> context.key,
   originalValue |-> context.englishValue,
   translatedValue |-> cleanupTranslation(Trim(raw), context.englishValue)]

\* a catch handler that stores an empty translation for a failed item
FallbackResultEmpty(context) ==
  [key |-> context.key,
   originalValue |-> context.englishValue,
   translatedValue |-> <<>>]

\* the fallback of translateBatch's catch handler
FallbackResult(context) ==
  [key |-> context.key,
   originalValue |-> context.englishValue,
   translatedValue |-> context.englishValue]

\* a runNext whose loop tests running <= concurrency
RECURSIVE runNextOvershoot(_)
runNextOvershoot(st) ==
  IF st.running <= config.concurrency /\ st.index < Len(contexts)
  THEN LET currentIndex == st.index + 1
       IN  runNextOvershoot(
             [running |-> st.running + 1,
              index |-> st.index + 1,
              call |-> [st.call EXCEPT ![currentIndex] = "inflight"],
              calls |-> Append(st.calls,
                               StringRequest(contexts[currentIndex]))])
  ELSE st

\* a runNext that tests its condition once: if in place of while
runNextOnce(st) ==
  IF st.running < config.concurrency /\ st.index < Len(contexts)
  THEN LET currentIndex == st.index + 1
       IN  [running |-> st.running + 1,
            index |-> st.index + 1,
            call |-> [st.call EXCEPT ![currentIndex] = "inflight"],
            calls |-> Append(st.calls, StringRequest(contexts[currentIndex]))]
  ELSE st

\* runNext(): st holds running, index, call and calls
RECURSIVE runNext(_)
runNext(st) ==
  IF st.running < config.concurrency /\ st.index < Len(contexts)
  THEN LET currentIndex == st.index + 1
       IN  runNext([running |-> st.running + 1,
                    index |-> st.index + 1,
                    call |-> [st.call EXCEPT ![currentIndex] = "inflight"],
                    calls |-> Append(st.calls,
                                     StringRequest(contexts[currentIndex]))])
  ELSE st

\* translateBatch(contexts, ...) up to the return of its promise
TranslateBatch ==
  /\ pc = "batchCall"
  /\ LET n == Len(contexts)
         st == runNext([running |-> 0, index |-> 0,
                        call |-> [i \in 1..n |-> "idle"], calls |-> calls])
     IN  /\ running' = st.running
         /\ index' = st.index
         /\ call' = st.call
         /\ calls' = st.calls
         /\ poolResults' = [i \in 1..n |-> NoResult]
         /\ settled' = [i \in 1..n |-> NoResult]
         /\ response' = [i \in 1..n |-> NoResponse]
  /\ completed' = 0
  /\ resolved' = FALSE
  /\ resolvedWith' = <<>>
  /\ progress' = <<>>
  /\ pc' = "batchWait"
  /\ UNCHANGED <<treeVars, config, options, results, jointQueue, savedFile,
                 answers, contexts>>

\* the provider answers the request of item i and translateString returns
Respond(i, raw) ==
  /\ pc = "batchWait"
  /\ call[i] = "inflight"
  /\ response' = [response EXCEPT ![i] = [status |-> "ok", text |-> raw]]
  /\ settled' = [settled EXCEPT ![i] = translateString(contexts[i], raw)]
  /\ call' = [call EXCEPT ![i] = "fulfilled"]
  /\ UNCHANGED <<treeVars, runVars, contexts, completed, running, index,
                 poolResults, resolved, resolvedWith, progress>>

\* the request of item i fails and translateString rejects
RespondError(i) ==
  /\ pc = "batchWait"
  /\ call[i] = "inflight"
  /\ response' = [response EXCEPT ![i] = [status |-> "error", text |-> <<>>]]
  /\ call' = [call EXCEPT ![i] = "rejected"]
  /\ UNCHANGED <<treeVars, runVars, contexts, completed, running, index,
                 poolResults, settled, resolved, resolvedWith, progress>>

\* .then((result) => { results[currentIndex] = result; })
ThenHandler(i) ==
  /\ pc = "batchWait"
  /\ call[i] = "fulfilled"
  /\ poolResults' = [poolResults EXCEPT ![i] = settled[i]]
  /\ call' = [call EXCEPT ![i] = "stored"]
  /\ UNCHANGED <<treeVars, runVars, contexts, completed, running, index,
                 response, settled, resolved, resolvedWith, progress>>

\* .catch((error) => { results[currentIndex] = fallback; })
CatchHandler(i) ==
  /\ pc = "batchWait"
  /\ call[i] = "rejected"
  /\ poolResults' = [poolResults EXCEPT ![i] = FallbackResult(contexts[i])]
  /\ call' = [call EXCEPT ![i] = "stored"]
  /\ UNCHANGED <<treeVars, runVars, contexts, completed, running, index,
                 response, settled, resolved, resolvedWith, progress>>

\* a progress callback invoked before completed is incremented
onProgressBeforeCount(done, total) == <<done - 1, total>>

\* onProgress(completed, contexts.length): the call, as the callback sees it
onProgress(done, total) == <<done, total>>

\* .finally(() => { running--; completed++; onProgress; resolve or runNext })
FinallyHandler(i) ==
  /\ pc = "batchWait"
  /\ call[i] = "stored"
  /\ completed' = completed + 1
  /\ progress' = Append(progress, onProgress(completed + 1, Len(contexts)))
  /\ IF completed + 1 = Len(contexts)
     THEN /\ resolved' = TRUE
          /\ resolvedWith' = poolResults
          /\ running' = running - 1
          /\ call' = [call EXCEPT ![i] = "done"]
          /\ UNCHANGED <<index, calls>>
     ELSE LET st == runNext([running |-> running - 1, index |-> index,
                             call |-> [call EXCEPT ![i] = "done"],
                             calls |-> calls])
          IN  /\ running' = st.running
              /\ index' = st.index
              /\ call' = st.call
              /\ calls' = st.calls
              /\ UNCHANGED <<resolved, resolvedWith>>
  /\ UNCHANGED <<treeVars, config, options, pc, results, jointQueue,
                 savedFile, answers, contexts, poolResults, response, settled>>

NextBatch ==
  \/ TranslateBatch
  \/ \E i \in 1..Len(contexts) : \E raw \in ProviderTexts : Respond(i, raw)
  \/ \E i \in 1..Len(contexts) : RespondError(i)
  \/ \E i \in 1..Len(contexts) : ThenHandler(i)
  \/ \E i \in 1..Len(contexts) : CatchHandler(i)
  \/ \E i \in 1..Len(contexts) : FinallyHandler(i)

\* translateBatch on its own: any number of contexts, any cap
EnglishValues == <<<<"H", "i">>, <<Quote, "B", Quote>>>>

BatchContexts(n) ==
  [i \in 1..n |->
     [key |-> <<"k", IdxKey(i - 1)>>,
      englishValue |-> EnglishValues[((i - 1) % Len(EnglishValues)) + 1]]]

InitBatch ==
  /\ source = EmptyObj
  /\ target = EmptyObj
  /\ IdleTree
  /\ config \in {[DefaultConfig EXCEPT !.concurrency = cap] : cap \in 1..MaxCap}
  /\ options = [dryRun |-> FALSE]
  /\ pc = "batchCall"
  /\ IdleRun
  /\ contexts \in {BatchContexts(n) : n \in 0..MaxItems}
  /\ completed = 0
  /\ running = 0
  /\ index = 0
  /\ poolResults = <<>>
  /\ call = <<>>
  /\ response = <<>>
  /\ settled = <<>>
  /\ resolved = FALSE
  /\ resolvedWith = <<>>
  /\ progress = <<>>

SpecBatch == InitBatch /\ [][NextBatch]_vars

\* --------------------------------------------------------------------------
\* translateDescriptionWithLinks
\* --------------------------------------------------------------------------
\* What the provider may answer a joint request with, by what JSON.parse and
\* the two type tests make of it: "notjson" is text JSON.parse rejects (the
\* empty output included), "null" the JSON null, "scalar" a JSON number,
\* string, boolean or array, "object" a JSON object whose description is or
\* is not a string and whose linkTexts is or is not an array.
BlankResponse(kind) ==
  [kind |-> kind, hasDescription |-> FALSE, description |-> <<>>,
   hasLinkTexts |-> FALSE, linkTexts |-> <<>>]

JointResponses(m) ==
  {BlankResponse("notjson"), BlankResponse("null"), BlankResponse("scalar")}
  \cup {[kind |-> "object",
          hasDescription |-> d,
          description |-> IF d THEN <<"d">> ELSE <<>>,
          hasLinkTexts |-> l >= 0,
          linkTexts |-> [i \in 1..l |-> <<"l", IdxKey(i)>>]] :
           d \in BOOLEAN, l \in (-1)..(m + 1)}

\* JSON.parse(raw) throws, or reading parsed.description does
ParseThrows(resp) == resp.kind \in {"notjson", "null"}

JointRequest(descriptionKey, description, linkTexts) ==
  [fn |-> "translateDescriptionWithLinks",
   keys |-> <<descriptionKey>>
            \o getLinkTextKeyPaths(getParentSection(descriptionKey),
                                   Len(linkTexts),
                                   config.linkedContentPatterns),
   texts |-> <<description>> \o linkTexts]

\* a try block that collects the anchors before the description
ParsedResultsAnchorsFirst(descriptionKey, description, linkTexts, resp) ==
  LET patterns == config.linkedContentPatterns
      parentPath == getParentSection(descriptionKey)
      count == Min(Len(linkTexts), Len(resp.linkTexts))
  IN  (IF resp.hasLinkTexts
       THEN [i \in 1..count |->
               [key |-> parentPath \o <<LinksKey(patterns), IdxKey(i - 1),
                                        TextField(patterns)>>,
                originalValue |-> linkTexts[i],
                translatedValue |-> resp.linkTexts[i]]]
       ELSE <<>>)
      \o (IF resp.hasDescription
          THEN <<[key |-> descriptionKey,
                  originalValue |-> description,
                  translatedValue |-> resp.description]>>
          ELSE <<>>)

\* the results the try block of translateDescriptionWithLinks collects
ParsedResults(descriptionKey, description, linkTexts, resp) ==
  LET patterns == config.linkedContentPatterns
      parentPath == getParentSection(descriptionKey)
      count == Min(Len(linkTexts), Len(resp.linkTexts))
  IN  (IF resp.hasDescription
       THEN <<[key |-> descriptionKey,
               originalValue |-> description,
               translatedValue |-> resp.description]>>
       ELSE <<>>)
      \o (IF resp.hasLinkTexts
          THEN [i \in 1..count |->
                  [key |-> parentPath \o <<LinksKey(patterns), IdxKey(i - 1),
                                           TextField(patterns)>>,
                   originalValue |-> linkTexts[i],
                   translatedValue |-> resp.linkTexts[i]]]
          ELSE <<>>)

\* --------------------------------------------------------------------------
\* translateMissingKeys
\* --------------------------------------------------------------------------
stringKeys(missingKeys) ==
  SelectSeq(missingKeys, LAMBDA key : getValueAtPath(source, key).t = "str")

hrefKeys(missingKeys) ==
  SelectSeq(stringKeys(missingKeys),
            LAMBDA key : isHrefKey(key, config.hrefPatterns))

HrefResults(missingKeys) ==
  LET keys == hrefKeys(missingKeys)
  IN  [i \in 1..Len(keys) |->
         [key |-> keys[i],
          originalValue |-> getValueAtPath(source, keys[i]).v,
          translatedValue |-> getValueAtPath(source, keys[i]).v]]

descriptionKeysWithLinks(missingKeys) ==
  LET patterns == config.linkedContentPatterns
  IN  SelectSeq(stringKeys(missingKeys),
                LAMBDA key :
                  LET parentPath == getDescriptionParentPath(key, patterns)
                  IN  /\ parentPath # NoPath
                      /\ Truthy(parentPath)
                      /\ sectionHasLinks(source, parentPath, patterns))

linkTextKeysToSkip(missingKeys) ==
  LET patterns == config.linkedContentPatterns
      descKeys == descriptionKeysWithLinks(missingKeys)
  IN  UNION {LET parentPath == getDescriptionParentPath(descKeys[i], patterns)
                 parent == getValueAtPath(source, parentPath)
                 links == IF IsObjectType(parent)
                          THEN Lookup(parent, LinksKey(patterns))
                          ELSE Undefined
             IN  IF IsArray(links)
                 THEN ToSet(getLinkTextKeyPaths(parentPath, links.len,
                                                patterns))
                 ELSE {} : i \in 1..Len(descKeys)}

normalKeys(missingKeys) ==
  SelectSeq(stringKeys(missingKeys),
            LAMBDA key :
              /\ ~isHrefKey(key, config.hrefPatterns)
              /\ ~Contains(descriptionKeysWithLinks(missingKeys), key)
              /\ key \notin linkTextKeysToSkip(missingKeys))

buildTranslationContext(englishFile, keyPath) ==
  [key |-> keyPath, englishValue |-> getValueAtPath(englishFile, keyPath).v]

\* the [code] previews of the dryRun option
DryRunResults(missingKeys) ==
  LET keys == stringKeys(missingKeys)
  IN  [i \in 1..Len(keys) |->
         [key |-> keys[i],
          originalValue |-> getValueAtPath(source, keys[i]).v,
          translatedValue |-> <<"[", "x", "]", Space>>
                              \o getValueAtPath(source, keys[i]).v]]

\* the joint group the loop of translateMissingKeys is at
descKey == Head(jointQueue)

JointDescription == getValueAtPath(source, descKey).v

JointLinkTexts ==
  IF jointQueue = <<>> THEN <<>>
  ELSE getLinkTextsFromSection(
         source,
         getDescriptionParentPath(descKey, config.linkedContentPatterns),
         config.linkedContentPatterns)

\* translateMissingKeys(report.missingInTarget, language, options) up to its
\* first await: the classification and the copies of the href keys
TranslateMissingKeys ==
  /\ pc = "orchestrate"
  /\ LET missingKeys == report.missingInTarget
     IN  IF stringKeys(missingKeys) = <<>>
         THEN /\ results' = <<>>
              /\ jointQueue' = <<>>
              /\ pc' = "returned"
         ELSE IF options.dryRun
         THEN /\ results' = DryRunResults(missingKeys)
              /\ jointQueue' = <<>>
              /\ pc' = "returned"
         ELSE /\ results' = HrefResults(missingKeys)
              /\ jointQueue' = descriptionKeysWithLinks(missingKeys)
              /\ pc' = "joint"
  /\ UNCHANGED <<treeVars, config, options, savedFile, calls, answers,
                 batchVars>>

\* translateDescriptionWithLinks(descKey, ...) up to its request
JointCall ==
  /\ pc = "joint"
  /\ jointQueue # <<>>
  /\ calls' = Append(calls,
                     JointRequest(descKey, JointDescription, JointLinkTexts))
  /\ pc' = "jointWait"
  /\ UNCHANGED <<treeVars, config, options, results, jointQueue, savedFile,
                 answers, batchVars>>

\* the joint request is answered: the results are taken from the answer, or
\* the catch block sends the description alone
JointRespond(resp) ==
  /\ pc = "jointWait"
  /\ answers' = Append(answers, [key |-> descKey, response |-> resp])
  /\ IF ParseThrows(resp)
     THEN /\ calls' = Append(calls,
                             StringRequest([key |-> descKey,
                                            englishValue |-> JointDescription]))
          /\ pc' = "fallbackWait"
          /\ UNCHANGED <<results, jointQueue>>
     ELSE /\ results' = results \o ParsedResults(descKey, JointDescription,
                                                  JointLinkTexts, resp)
          /\ jointQueue' = Tail(jointQueue)
          /\ pc' = "joint"
          /\ UNCHANGED calls
  /\ UNCHANGED <<treeVars, config, options, savedFile, batchVars>>

\* the joint request fails: the await at the top of
\* translateDescriptionWithLinks throws, translateMissingKeys rejects and the
\* command's catch block exits
JointRespondError ==
  /\ pc = "jointWait"
  /\ answers' = Append(answers,
                       [key |-> descKey, response |-> BlankResponse("error")])
  /\ pc' = "failed"
  /\ UNCHANGED <<treeVars, config, options, results, jointQueue, savedFile,
                 calls, batchVars>>

\* the description-only request of the catch block is answered
FallbackRespond(raw) ==
  /\ pc = "fallbackWait"
  /\ results' = Append(results,
                       translateString([key |-> descKey,
                                        englishValue |-> JointDescription],
                                       raw))
  /\ jointQueue' = Tail(jointQueue)
  /\ pc' = "joint"
  /\ UNCHANGED <<treeVars, config, options, savedFile, calls, answers,
                 batchVars>>

\* the description-only request of the catch block fails
FallbackRespondError ==
  /\ pc = "fallbackWait"
  /\ pc' = "failed"
  /\ UNCHANGED <<treeVars, config, options, results, jointQueue, savedFile,
                 calls, answers, batchVars>>

\* the keys a run classifies: missingKeys in translateMissingKeys, allKeys in
\* createFullTranslation
RunKeys ==
  IF options.command = "create" THEN flattenKeys(source)
  ELSE report.missingInTarget

\* translateMissingKeys or createFullTranslation after its joint groups: the
\* ordinary keys and their contexts, handed to translateBatch
PrepareBatch ==
  /\ pc = "joint"
  /\ jointQueue = <<>>
  /\ LET keys == normalKeys(RunKeys)
     IN  contexts' = [i \in 1..Len(keys) |->
                        buildTranslationContext(source, keys[i])]
  /\ pc' = "batchCall"
  /\ UNCHANGED <<treeVars, config, options, results, jointQueue, savedFile,
                 calls, answers, completed, running, index, poolResults, call,
                 response, settled, resolved, resolvedWith, progress>>

\* return [...results, ...batchResults]
ReturnResults ==
  /\ pc = "batchWait"
  /\ resolved
  /\ results' = results \o resolvedWith
  /\ pc' = "returned"
  /\ UNCHANGED <<treeVars, config, options, jointQueue, savedFile, calls,
                 answers, batchVars>>

\* --------------------------------------------------------------------------
\* The translate command
\* --------------------------------------------------------------------------
RECURSIVE ApplyResults(_, _, _)
ApplyResults(updatedTarget, res, i) ==
  IF i > Len(res) \/ updatedTarget = Thrown THEN updatedTarget
  ELSE ApplyResults(setValueAtPath(updatedTarget, res[i].key,
                                   Leaf(res[i].translatedValue), source),
                    res, i + 1)

\* the command up to its call of translateMissingKeys; target is Undefined
\* when the target file does not exist
TranslateCommand ==
  /\ pc = "start"
  /\ options.command = "translate"
  /\ IF target = Undefined
     THEN /\ pc' = "failed"
          /\ UNCHANGED report
     ELSE /\ report' = compareTranslations(source, target)
          /\ pc' = IF report'.missingInTarget = <<>> THEN "done"
                   ELSE IF options.dryRun THEN "done"
                   ELSE "orchestrate"
  /\ UNCHANGED <<source, target, merged, mergedPrev, reorders, args, retval>>
  /\ UNCHANGED <<config, options, results, jointQueue, savedFile, calls,
                 answers, batchVars>>

\* the translate or sync command after translateMissingKeys returned: apply,
\* reorder, save; a setValueAtPath that throws ends the command in its catch
\* block
ApplyAndSave ==
  /\ pc = "returned"
  /\ options.command \in {"translate", "sync"}
  /\ LET updatedTarget == ApplyResults(deepClone(target), results, 1)
     IN  IF updatedTarget = Thrown
         THEN /\ pc' = "failed"
              /\ UNCHANGED savedFile
         ELSE /\ savedFile' = saveTranslationFile(
                                reorderToMatchSource(source, updatedTarget))
              /\ pc' = "done"
  /\ UNCHANGED <<treeVars, config, options, results, jointQueue, calls,
                 answers, batchVars>>

\* --------------------------------------------------------------------------
\* The sync and create commands
\* --------------------------------------------------------------------------
\* the sync command up to its call of translateMissingKeys: a target file
\* that does not exist is created as {} unless --dry-run is given, then the
\* files are loaded and compared
SyncCommand ==
  /\ pc = "start"
  /\ options.command = "sync"
  /\ LET exists == target # Undefined
         loaded == IF exists THEN target ELSE EmptyObj
     IN  /\ savedFile' = IF ~exists /\ ~options.dryRun
                         THEN saveTranslationFile(EmptyObj)
                         ELSE savedFile
         /\ target' = loaded
         /\ report' = compareTranslations(source, loaded)
  /\ pc' = IF report'.missingInTarget = <<>> THEN "done"
           ELSE IF ~options.translate THEN "done"
           ELSE IF options.dryRun THEN "done"
           ELSE "orchestrate"
  /\ UNCHANGED <<source, merged, mergedPrev, reorders, args, retval>>
  /\ UNCHANGED <<config, options, results, jointQueue, calls, answers,
                 batchVars>>

\* the create command up to its call of createFullTranslation
CreateCommand ==
  /\ pc = "start"
  /\ options.command = "create"
  /\ pc' = IF target # Undefined /\ ~options.force THEN "failed"
           ELSE IF options.dryRun THEN "done"
           ELSE "createFull"
  /\ UNCHANGED <<treeVars, config, options, results, jointQueue, savedFile,
                 calls, answers, batchVars>>

\* createFullTranslation(language, options) up to its first await: the
\* classification of all the keys and the copies of the href keys (the
\* command has returned before this when --dry-run is given)
CreateFullTranslation ==
  /\ pc = "createFull"
  /\ ~options.dryRun
  /\ results' = HrefResults(RunKeys)
  /\ jointQueue' = descriptionKeysWithLinks(RunKeys)
  /\ pc' = "joint"
  /\ UNCHANGED <<treeVars, config, options, savedFile, calls, answers,
                 batchVars>>

\* createFullTranslation after translateBatch resolved: the results are set
\* in a copy of the English file; the create command reorders and saves it
CreateSave ==
  /\ pc = "returned"
  /\ options.command = "create"
  /\ LET translatedFile == ApplyResults(JsonRoundTrip(source), results, 1)
     IN  IF translatedFile = Thrown
         THEN /\ pc' = "failed"
              /\ UNCHANGED savedFile
         ELSE /\ savedFile' = saveTranslationFile(
                                reorderToMatchSource(source, translatedFile))
              /\ pc' = "done"
  /\ UNCHANGED <<treeVars, config, options, results, jointQueue, calls,
                 answers, batchVars>>

\* --------------------------------------------------------------------------
\* The files and configurations of the runs
\* --------------------------------------------------------------------------
LinkItem(textField, text, href) ==
  Obj(<<textField, "href">>, <<Leaf(text), Leaf(href)>>)

\* {title, intro}
SrcPlain ==
  Obj(<<"title", "intro">>, <<Leaf(<<"H", "i">>), Leaf(<<Quote, "B", Quote>>)>>)

\* {cta: {href}}
SrcHrefOnly == Obj(<<"cta">>, <<Obj(<<"href">>, <<Leaf(<<"u">>)>>)>>)

\* {card: {description, links: [{text, href}]}, title}
SrcCard ==
  Obj(<<"card", "title">>,
      <<Obj(<<"description", "links">>,
            <<Leaf(<<"D">>), Arr(<<LinkItem("text", <<"L">>, <<"u">>)>>)>>),
        Leaf(<<"H", "i">>)>>)

\* {card: {description, links: [{text, href}, {text, href}]}}
SrcTwoLinks ==
  Obj(<<"card">>,
      <<Obj(<<"description", "links">>,
            <<Leaf(<<"D">>),
              Arr(<<LinkItem("text", <<"L">>, <<"u">>),
                    LinkItem("text", <<"M">>, <<"v">>)>>)>>)>>)

\* {card: {summary, items: [{label, href}]}, note: {description}}
SrcCustom ==
  Obj(<<"card", "note">>,
      <<Obj(<<"summary", "items">>,
            <<Leaf(<<"D">>), Arr(<<LinkItem("label", <<"L">>, <<"u">>)>>)>>),
        Obj(<<"description">>, <<Leaf(<<"N">>)>>)>>)

\* {hero: {description, links: [{text, href}]},
\*  card: {description, links: [{text, href}]}}
SrcTwoCards ==
  Obj(<<"hero", "card">>,
      <<Obj(<<"description", "links">>,
            <<Leaf(<<"D">>), Arr(<<LinkItem("text", <<"L">>, <<"u">>)>>)>>),
        Obj(<<"description", "links">>,
            <<Leaf(<<"E">>), Arr(<<LinkItem("text", <<"M">>, <<"v">>)>>)>>)>>)

\* {card: {description, links: [{text: "", href}]}}
SrcEmptyText ==
  Obj(<<"card">>,
      <<Obj(<<"description", "links">>,
            <<Leaf(<<"D">>), Arr(<<LinkItem("text", <<>>, <<"u">>)>>)>>)>>)

\* {card: {description, items: [{label, href}]}}
SrcItemsOnly ==
  Obj(<<"card">>,
      <<Obj(<<"description", "items">>,
            <<Leaf(<<"D">>), Arr(<<LinkItem("label", <<"L">>, <<"u">>)>>)>>)>>)

\* {flag: null}
SrcNull == Obj(<<"flag">>, <<Null>>)

Sources == {SrcPlain, SrcHrefOnly, SrcCard, SrcTwoLinks, SrcCustom, SrcNull}

\* {title, intro}, translated
TgtPlain == Obj(<<"intro", "title">>, <<Leaf(<<"b">>), Leaf(<<"h">>)>>)

\* {card: {description}}
TgtDescribed == Obj(<<"card">>, <<Obj(<<"description">>, <<Leaf(<<"d">>)>>)>>)

\* {card: {links: [{text, href}]}}
TgtLinked ==
  Obj(<<"card">>,
      <<Obj(<<"links">>, <<Arr(<<LinkItem("text", <<"l">>, <<"u">>)>>)>>)>>)

\* {card: {links: [{text: {z}, href}]}}: an object where the source holds
\* the anchor text
TgtTextObject ==
  Obj(<<"card">>,
      <<Obj(<<"links">>,
            <<Arr(<<Obj(<<"text", "href">>,
                        <<Obj(<<"z">>, <<Leaf(<<"q">>)>>),
                          Leaf(<<"u">>)>>)>>)>>)>>)

Targets == {EmptyObj, TgtPlain, TgtDescribed, TgtLinked, TgtTextObject}

\* hrefPatterns: ["*.href", "*.text"]
PassTextConfig ==
  [DefaultConfig EXCEPT !.hrefPatterns = <<<<"href">>, <<"text">>>>]

\* linkedContentPatterns: [{"*.summary", "items", "label"}]
CustomConfig ==
  [DefaultConfig EXCEPT
     !.linkedContentPatterns =
        <<[descriptionPattern |-> <<"summary">>, linksKey |-> "items",
           linkTextField |-> "label"]>>]

\* linkedContentPatterns: [{"*.summary", "items", "label"},
\*                         {"*.description", "links", "text"}]
TwoPatternConfig ==
  [DefaultConfig EXCEPT
     !.linkedContentPatterns =
        <<[descriptionPattern |-> <<"summary">>, linksKey |-> "items",
           linkTextField |-> "label"],
          [descriptionPattern |-> <<"description">>, linksKey |-> "links",
           linkTextField |-> "text"]>>]

Configs ==
  {[cfg EXCEPT !.concurrency = cap] :
     cfg \in {DefaultConfig, PassTextConfig, CustomConfig}, cap \in 1..MaxCap}

Init ==
  /\ source \in Sources
  /\ target \in Targets
  /\ IdleTree
  /\ config \in Configs
  /\ options \in {[command |-> "translate", translate |-> FALSE,
                    force |-> FALSE, dryRun |-> b] : b \in BOOLEAN}
  /\ pc = "start"
  /\ IdleRun
  /\ IdleBatch

Next ==
  \/ TranslateCommand
  \/ TranslateMissingKeys
  \/ JointCall
  \/ \E resp \in JointResponses(Len(JointLinkTexts)) : JointRespond(resp)
  \/ JointRespondError
  \/ \E raw \in ProviderTexts : FallbackRespond(raw)
  \/ FallbackRespondError
  \/ PrepareBatch
  \/ TranslateBatch
  \/ \E i \in 1..Len(contexts) : \E raw \in ProviderTexts : Respond(i, raw)
  \/ \E i \in 1..Len(contexts) : RespondError(i)
  \/ \E i \in 1..Len(contexts) : ThenHandler(i)
  \/ \E i \in 1..Len(contexts) : CatchHandler(i)
  \/ \E i \in 1..Len(contexts) : FinallyHandler(i)
  \/ ReturnResults
  \/ ApplyAndSave

Spec == Init /\ [][Next]_vars

\* --------------------------------------------------------------------------
\* The translate, sync and create commands over a messages directory whose
\* target file may be absent
\* --------------------------------------------------------------------------
\* {card: null}
TgtNull == Obj(<<"card">>, <<Null>>)

\* the command lines: --translate is an option of sync, --force of create
CommandLines ==
  {[command |-> "translate", translate |-> FALSE, force |-> FALSE,
    dryRun |-> d] : d \in BOOLEAN}
  \cup {[command |-> "sync", translate |-> t, force |-> FALSE,
         dryRun |-> d] : t \in BOOLEAN, d \in BOOLEAN}
  \cup {[command |-> "create", translate |-> FALSE, force |-> f,
         dryRun |-> d] : f \in BOOLEAN, d \in BOOLEAN}

InitCommands ==
  /\ source \in {EmptyObj, SrcPlain, SrcCard, SrcTwoCards, SrcEmptyText,
                 SrcItemsOnly}
  /\ target \in {Undefined, EmptyObj, TgtDescribed, TgtNull}
  /\ IdleTree
  /\ config \in {[DefaultConfig EXCEPT !.concurrency = cap] : cap \in 1..2}
                \cup {[TwoPatternConfig EXCEPT !.concurrency = 1]}
  /\ options \in CommandLines
  /\ pc = "start"
  /\ IdleRun
  /\ IdleBatch

NextCommands ==
  \/ TranslateCommand
  \/ SyncCommand
  \/ CreateCommand
  \/ TranslateMissingKeys
  \/ CreateFullTranslation
  \/ JointCall
  \/ \E resp \in JointResponses(Len(JointLinkTexts)) : JointRespond(resp)
  \/ JointRespondError
  \/ \E raw \in ProviderTexts : FallbackRespond(raw)
  \/ FallbackRespondError
  \/ PrepareBatch
  \/ TranslateBatch
  \/ \E i \in 1..Len(contexts) : \E raw \in ProviderTexts : Respond(i, raw)
  \/ \E i \in 1..Len(contexts) : RespondError(i)
  \/ \E i \in 1..Len(contexts) : ThenHandler(i)
  \/ \E i \in 1..Len(contexts) : CatchHandler(i)
  \/ \E i \in 1..Len(contexts) : FinallyHandler(i)
  \/ ReturnResults
  \/ ApplyAndSave
  \/ CreateSave

SpecCommands == InitCommands /\ [][NextCommands]_vars

\* --------------------------------------------------------------------------
\* Claims
\* --------------------------------------------------------------------------

\* C1: when translateBatch resolves, its array has one entry per input, entry
\* i belongs to input i whatever the completion order, and holds the cleaned
\* answer of the provider if the call of item i succeeded and the untranslated
\* source value if it failed.
C1_BatchResultIntegrity ==
  resolved =>
    /\ Len(resolvedWith) = Len(contexts)
    /\ \A i \in 1..Len(contexts) :
         /\ resolvedWith[i].key = contexts[i].key
         /\ resolvedWith[i].originalValue = contexts[i].englishValue
         /\ (response[i].status = "ok" =>
               resolvedWith[i].translatedValue
                 = cleanupTranslation(Trim(response[i].text),
                                      contexts[i].englishValue))
         /\ (response[i].status = "error" =>
               resolvedWith[i].translatedValue = contexts[i].englishValue)
         /\ response[i].status \in {"ok", "error"}

\* a batch of three or more items, run with a cap of two or more, has
\* resolved with a failed and a successful call among its items
C1_Witness ==
  /\ resolved
  /\ Len(contexts) >= 3
  /\ \E i \in 1..Len(contexts) : response[i].status = "error"
  /\ \E i \in 1..Len(contexts) : response[i].status = "ok"
  /\ config.concurrency >= 2
  /\ Len(progress) = Len(contexts)

\* the external calls in flight: dispatched and not yet answered
InFlight == {i \in 1..Len(call) : call[i] = "inflight"}

\* the promise chains that have started and not run their finally handler
Unfinished == {i \in 1..Len(call) : call[i] \notin {"idle", "done"}}

\* C2: at every instant of translateBatch the number of provider calls in
\* flight is at most the configured cap (and so is the pool's own count of
\* started, unfinished items, which is what `running` holds).
C2_InFlightBounded ==
  /\ Cardinality(InFlight) <= config.concurrency
  /\ Cardinality(Unfinished) <= config.concurrency
  /\ (pc = "batchWait" => running = Cardinality(Unfinished))

\* the cap is reached with items still waiting to be dispatched
C2_Witness ==
  /\ pc = "batchWait"
  /\ config.concurrency >= 2
  /\ Cardinality(InFlight) = config.concurrency
  /\ index < Len(contexts)
  /\ completed > 0

\* translateMissingKeys has returned its results to the command
Returned == pc \in {"returned", "done"} /\ report # NoReport

\* C3 (as claimed): translateBatch resolves for every number of items, zero
\* included: once nothing is left to dispatch and no call or handler is
\* outstanding, its promise is resolved.
C3_BatchResolves ==
  (pc = "batchWait" /\ index = Len(contexts) /\ Unfinished = {}) => resolved

\* C4 (as claimed): a provider error on any call of a run is recovered
\* locally: the run is not aborted, and the key of a failed joint request
\* gets its source value as its result.
C4_ErrorsRecovered ==
  /\ pc # "failed"
  /\ Returned =>
       \A i \in 1..Len(answers) :
         answers[i].response.kind = "error" =>
           \E j \in 1..Len(results) :
             /\ results[j].key = answers[i].key
             /\ results[j].translatedValue = results[j].originalValue

\* the answer holds a string description (an object of the expected shape)
HasStringDescription(resp) == resp.kind = "object" /\ resp.hasDescription

\* C5 (as claimed): a joint answer that is not JSON, is JSON of another type
\* or is an object without a string description makes the group fall back to
\* a description-only request, and the returned results hold exactly one
\* entry for the description key of every joint group.
C5_JointFallback ==
  /\ \A i \in 1..Len(answers) :
       (/\ ~HasStringDescription(answers[i].response)
        /\ (i < Len(answers) \/ pc # "failed"))
       => \E j \in 1..Len(calls) :
            /\ calls[j].fn = "translateString"
            /\ calls[j].keys = <<answers[i].key>>
  /\ Returned =>
       \A i \in 1..Len(answers) :
         Cardinality({j \in 1..Len(results) :
                        results[j].key = answers[i].key}) = 1

\* the three paths of the classification, by what the orchestrator does with
\* a missing string key: copies it, sends it in a joint request, or hands it
\* to translateBatch
PassThroughPath == ToSet(hrefKeys(report.missingInTarget))

JointPath ==
  ToSet(stringKeys(report.missingInTarget))
  \cap (ToSet(descriptionKeysWithLinks(report.missingInTarget))
        \cup linkTextKeysToSkip(report.missingInTarget))

OrdinaryPath == ToSet(normalKeys(report.missingInTarget))

\* C6 (as claimed): under any configuration the three paths partition the
\* missing string keys, pass-through first, then joint, then ordinary, and
\* the returned results hold at most one entry per key.
C6_ClassificationPartition ==
  report # NoReport =>
    /\ PassThroughPath \cap JointPath = {}
    /\ PassThroughPath \cap OrdinaryPath = {}
    /\ JointPath \cap OrdinaryPath = {}
    /\ PassThroughPath \cup JointPath \cup OrdinaryPath
         = ToSet(stringKeys(report.missingInTarget))
    /\ Returned =>
         \A i, j \in 1..Len(results) :
           results[i].key = results[j].key => i = j

\* C7 (as claimed): a missing string key that matches a pass-through pattern
\* is in no request sent to the provider, and the file written holds the
\* source value under it.
C7_PassThroughUntouched ==
  report # NoReport =>
    \A key \in PassThroughPath :
      /\ \A j \in 1..Len(calls) : ~Contains(calls[j].keys, key)
      /\ savedFile # Undefined =>
           getValueAtPath(savedFile, key) = getValueAtPath(source, key)

\* C8 (as claimed): compareTranslations partitions the leaves: the missing
\* paths and the source paths that are also target paths are disjoint and make
\* up flattenKeys(source), the extra paths and the target paths that are also
\* source paths are disjoint and make up flattenKeys(target), and there is one
\* number of common leaves with missingCount + common = totalKeysInSource and
\* extraCount + common = totalKeysInTarget.
C8_DiffPartition ==
  report # NoReport =>
    LET S == ToSet(flattenKeys(source))
        T == ToSet(flattenKeys(target))
        missing == ToSet(report.missingInTarget)
        extra == ToSet(report.extraInTarget)
        common == Cardinality(S \cap T)
    IN  /\ missing \cap (S \cap T) = {}
        /\ missing \cup (S \cap T) = S
        /\ extra \cap (S \cap T) = {}
        /\ extra \cup (S \cap T) = T
        /\ report.missingCount + common = report.totalKeysInSource
        /\ report.extraCount + common = report.totalKeysInTarget
        /\ (source = EmptyObj =>
              report.missingInTarget = <<>>
              /\ report.extraInTarget = flattenKeys(target))
        /\ (target = EmptyObj => report.missingInTarget = flattenKeys(source))

\* the key paths that resolve in both trees, one side a leaf and the other a
\* container
RECURSIVE PathsOf(_, _)
PathsOf(x, prefix) ==
  IF ~IsObjectType(x) THEN {}
  ELSE UNION {LET p == prefix \o <<x.k[i]>>
              IN  {p} \cup PathsOf(x.c[i], p) : i \in 1..Len(x.k)}

ShapeConflicts(src, tgt) ==
  {p \in PathsOf(src, <<>>) \cap PathsOf(tgt, <<>>) :
     getValueType(getValueAtPath(src, p)) # getValueType(getValueAtPath(tgt, p))}

\* C9 (as claimed): typeMismatches has an entry for every path that resolves
\* in both trees to different shapes, recording the two shapes, and no entry
\* for any other path.
C9_TypeMismatches ==
  report # NoReport =>
    /\ \A p \in ShapeConflicts(source, target) :
         \E i \in 1..Len(report.typeMismatches) :
           /\ report.typeMismatches[i].path = p
           /\ report.typeMismatches[i].sourceType
                = getValueType(getValueAtPath(source, p))
           /\ report.typeMismatches[i].targetType
                = getValueType(getValueAtPath(target, p))
    /\ \A i \in 1..Len(report.typeMismatches) :
         report.typeMismatches[i].path \in ShapeConflicts(source, target)

\* C10 (as claimed): reorderToMatchSource is idempotent in its content:
\* reordering an already reordered content against the same source returns it
\* unchanged.
C10_ReorderIdempotent ==
  reorders >= 2 => merged = mergedPrev

\* the shape of a value: a leaf, a plain object, an array, or nothing there
Shape(value) ==
  IF value = Undefined THEN "absent"
  ELSE IF IsArray(value) THEN "array"
  ELSE IF IsPlainObject(value) THEN "object"
  ELSE "leaf"

\* C11 (as claimed): every key path of the source has in
\* reorderToMatchSource(source, content) the shape it has in the source:
\* leaf, plain object or array.
C11_ShapePreserved ==
  reorders >= 1 =>
    \A p \in PathsOf(source, <<>>) :
      Shape(getValueAtPath(merged, p)) = Shape(getValueAtPath(source, p))

\* C12 (as claimed): the leaf key paths of reorderToMatchSource(source,
\* content) are those of the source, in the source's order.
C12_FlattenOrder ==
  reorders >= 1 => flattenKeys(merged) = flattenKeys(source)

\* every promise chain of the batch has run to its end
AllDone == pc = "batchWait" /\ \A i \in 1..Len(call) : call[i] = "done"

\* C13: the progress callback is invoked once per finished item, the k-th
\* call with completed = k and total = n, so n times in a whole run, in
\* increasing order and without repetition, in every interleaving.
C13_ProgressCounts ==
  /\ Len(progress) = completed
  /\ \A k \in 1..Len(progress) : progress[k] = <<k, Len(contexts)>>
  /\ AllDone => Len(progress) = Len(contexts)

\* two or more items have finished, one of them failed, and a later item
\* has finished before an earlier one
C13_Witness ==
  /\ Len(progress) >= 2
  /\ \E i \in 1..Len(call) : call[i] = "done" /\ response[i].status = "error"
  /\ \E i, j \in 1..Len(call) :
       i < j /\ call[j] = "done" /\ call[i] \notin {"idle", "done"}

\* control is back in the event loop: no handler of a settled call is pending
AtEventLoop ==
  pc = "batchWait" /\ \A i \in 1..Len(call) : call[i] \in {"idle", "inflight", "done"}

\* the requests translateBatch has sent, in the order it sent them
BatchCalls == SubSeq(calls, Len(calls) - index + 1, Len(calls))

\* C19: translateBatch is work-conserving: whenever control is back in the
\* event loop and the run is not finished, min(cap, n - completed) calls are
\* in flight, and the items are dispatched in the order of their indices.
C19_WorkConserving ==
  pc = "batchWait" =>
    /\ (AtEventLoop /\ ~resolved) =>
         Cardinality(InFlight)
           = Min(config.concurrency, Len(contexts) - completed)
    /\ Len(calls) >= index
    /\ \A j \in 1..index :
         /\ BatchCalls[j] = StringRequest(contexts[j])
         /\ call[j] # "idle"
    /\ \A j \in (index + 1)..Len(contexts) : call[j] = "idle"

\* an item has finished and its slot was refilled at once: the cap is still
\* reached, by items dispatched after the first batch
C19_Witness ==
  /\ AtEventLoop
  /\ ~resolved
  /\ completed >= 1
  /\ config.concurrency >= 2
  /\ Cardinality(InFlight) = config.concurrency
  /\ index = completed + config.concurrency

\* how often resolve(results) was called: once per finally handler that
\* found completed = contexts.length
ResolveCalls ==
  Cardinality({k \in 1..Len(progress) : progress[k][1] = Len(contexts)})

\* C20 (as claimed): translateBatch sends exactly one request per context,
\* n in a whole run, never one for an index it has dispatched before, and
\* resolves its promise exactly once.
C20_ExactlyOnce ==
  pc = "batchWait" =>
    /\ Len(calls) >= index
    /\ index <= Len(contexts)
    /\ \A i \in 1..Len(contexts) :
         Cardinality({j \in 1..index :
                        BatchCalls[j].keys = <<contexts[i].key>>})
           = IF call[i] = "idle" THEN 0 ELSE 1
    /\ ResolveCalls <= 1
    /\ resolved <=> ResolveCalls = 1
    /\ AllDone => index = Len(contexts) /\ ResolveCalls = 1

\* the proper prefixes of the key path setValueAtPath was called with
Intermediates == {SubSeq(args.keyPath, 1, n) : n \in 1..(Len(args.keyPath) - 1)}

\* the prefixes at which the call had to create a container: nothing was
\* there, or a string
Created(q) == ~TypeofObject(getValueAtPath(target, q))

\* C16: an intermediate container created by setValueAtPath(obj, path, value,
\* ref) is an array exactly when ref holds an array at that prefix and a
\* plain object otherwise (always a plain object without a reference); an
\* existing intermediate container is kept, with its other entries.
C16_IntermediateShape ==
  (pc = "setDone" /\ retval # Thrown) =>
    \A q \in Intermediates :
      LET before == getValueAtPath(target, q)
          after == getValueAtPath(retval, q)
          refHere == IF source = Undefined THEN Undefined
                     ELSE getValueAtPath(source, q)
          nextPart == args.keyPath[Len(q) + 1]
      IN  IF Created(q)
          THEN /\ Shape(after) = IF IsArray(refHere) THEN "array" ELSE "object"
               /\ source = Undefined => Shape(after) = "object"
               /\ \A key \in ToSet(after.k) : key = nextPart
          ELSE /\ Shape(after) = Shape(before)
               /\ \A key \in ToSet(before.k) \ {nextPart} :
                    Lookup(after, key) = Lookup(before, key)

\* a call on a path of three parts that kept an existing container and
\* created an array below it, after the reference
C16_Witness ==
  /\ pc = "setDone"
  /\ retval # Thrown
  /\ Len(args.keyPath) = 3
  /\ \E q \in Intermediates :
       Created(q) /\ Shape(getValueAtPath(retval, q)) = "array"
  /\ \E q \in Intermediates :
       ~Created(q) /\ Shape(getValueAtPath(target, q)) = "object"

Jaccard(x, y) ==
  LET A == tokenize(x)
      B == tokenize(y)
  IN  IF A = {} \/ B = {} THEN Score(0, 1)
      ELSE Score(Cardinality(A \cap B), Cardinality(A \cup B))

\* where the entry with this key stands in the iteration of the index
PositionOf(key) ==
  CHOOSE i \in 1..Len(args.pairIndex) : args.pairIndex[i].key = key

\* the positions of the index an example may come from
Eligible ==
  {i \in 1..Len(args.pairIndex) :
     /\ args.pairIndex[i].key # args.currentKey
     /\ ScoreGeq(Jaccard(args.englishValue, args.pairIndex[i].pair.english),
                 args.minScore)}

ExampleScore(j) == Jaccard(args.englishValue, retval[j].englishValue)

C15_SimilarExamples ==
  pc = "findDone" =>
    /\ Len(retval) <= args.limit
    /\ \A j \in 1..Len(retval) :
         /\ \E i \in Eligible :
              /\ retval[j].key = args.pairIndex[i].key
              /\ retval[j].englishValue = args.pairIndex[i].pair.english
              /\ retval[j].translatedValue =
                   args.pairIndex[i].pair.translated
         /\ retval[j].key # args.currentKey
         /\ ScoreGeq(ExampleScore(j), args.minScore)
    /\ \A j, k \in 1..Len(retval) :
         j < k =>
           /\ ScoreGeq(ExampleScore(j), ExampleScore(k))
           /\ ScoreGeq(ExampleScore(k), ExampleScore(j)) =>
                PositionOf(retval[j].key) < PositionOf(retval[k].key)
    /\ \A i \in Eligible :
         (\A j \in 1..Len(retval) : retval[j].key # args.pairIndex[i].key) =>
           \A j \in 1..Len(retval) :
             ScoreGeq(ExampleScore(j),
                      Jaccard(args.englishValue,
                              args.pairIndex[i].pair.english))

\* limit examples came back, two of them with equal scores, the one returned
\* first is not the first of the index, and an eligible entry was left out
C15_Witness ==
  /\ pc = "findDone"
  /\ Len(retval) = args.limit
  /\ Len(retval) >= 2
  /\ ScoreGeq(ExampleScore(2), ExampleScore(1))
  /\ retval[1].key # args.pairIndex[1].key
  /\ \E i \in Eligible :
       \A j \in 1..Len(retval) : retval[j].key # args.pairIndex[i].key

\* --------------------------------------------------------------------------
\* C17: in the translate, sync --translate and create commands the target
\* file is written only after every translation result of the run is
\* available, and a run that aborts before that leaves no write that holds
\* results.
\* --------------------------------------------------------------------------
TranslatingRun ==
  \/ options.command \in {"translate", "create"}
  \/ options.command = "sync" /\ options.translate

C17_WriteAfterResults ==
  TranslatingRun =>
    /\ savedFile # Undefined => pc = "done"
    /\ pc = "failed" =>
         savedFile = Undefined \/ flattenKeys(savedFile) = <<>>

\* --------------------------------------------------------------------------
\* C18: the sync command without --translate writes or creates no file,
\* whether the target file exists or not, and neither does a command run
\* with --dry-run.
\* --------------------------------------------------------------------------
C18_ReadOnly ==
  (\/ options.command = "sync" /\ ~options.translate
   \/ options.dryRun)
    => savedFile = Undefined

\* --------------------------------------------------------------------------
\* C21: joint groups are processed one after the other: at most one joint
\* call is in flight, the groups are called in the order of the keys of the
\* run, and the results of a group (description first, then its anchors in
\* array order) are in the result list before the next group is called.
\* --------------------------------------------------------------------------
JointCalls ==
  SelectSeq(calls, LAMBDA c : c.fn = "translateDescriptionWithLinks")

\* where a key stands in a sequence of keys (0 when it is not there)
PlaceIn(keys, key) ==
  IF Contains(keys, key)
  THEN CHOOSE i \in 1..Len(keys) : keys[i] = key
  ELSE 0

\* the places in the result list of the results that belong to group g
GroupPlaces(g) ==
  {i \in 1..Len(results) : Contains(JointCalls[g].keys, results[i].key)}

\* what the answer to group g promises: a description, and how many anchors
Promised(g) ==
  LET resp == answers[g].response
      anchors == Len(JointCalls[g].keys) - 1
  IN  IF resp.kind # "object" THEN 0
      ELSE (IF resp.hasDescription THEN 1 ELSE 0)
           + (IF resp.hasLinkTexts THEN Min(anchors, Len(resp.linkTexts))
              ELSE 0)

C21_JointSequential ==
  /\ Len(JointCalls) - Len(answers) \in {0, 1}
  /\ \A g, h \in 1..Len(JointCalls) :
       g < h =>
         /\ 0 < PlaceIn(RunKeys, JointCalls[g].keys[1])
         /\ PlaceIn(RunKeys, JointCalls[g].keys[1])
              < PlaceIn(RunKeys, JointCalls[h].keys[1])
         /\ Cardinality(GroupPlaces(g)) >= Promised(g)
         /\ \A i \in GroupPlaces(g) : \A j \in GroupPlaces(h) : i < j
  /\ \A g \in 1..Len(JointCalls) :
       \A i, j \in GroupPlaces(g) :
         i < j => PlaceIn(JointCalls[g].keys, results[i].key)
                    < PlaceIn(JointCalls[g].keys, results[j].key)

\* a second group has been called after the first was answered with a
\* description and an anchor, and both are in the result list
C21_Witness ==
  /\ Len(JointCalls) = 2
  /\ Len(answers) >= 1
  /\ answers[1].response.kind = "object"
  /\ Promised(1) = 2
  /\ Cardinality(GroupPlaces(1)) = 2

\* --------------------------------------------------------------------------
\* C22: a key is translated as a joint group only if its path ends with a
\* configured description suffix and its parent section in the source holds,
\* under the links key of that pattern, a non-empty array whose every item
\* has a non-empty string under the text field; and no anchor key of a group
\* is handed to the ordinary pool.
\* --------------------------------------------------------------------------
\* the pattern that applies when none is configured
DefaultPattern ==
  [descriptionPattern |-> <<"description">>, linksKey |-> "links",
   linkTextField |-> "text"]

EffectivePatterns ==
  IF Len(config.linkedContentPatterns) = 0 THEN <<DefaultPattern>>
  ELSE config.linkedContentPatterns

NonEmptyTexts(links, textField) ==
  /\ IsArray(links)
  /\ links.len > 0
  /\ \A i \in 0..(links.len - 1) :
       LET item == Lookup(links, IdxKey(i))
       IN  /\ IsObjectType(item)
           /\ Lookup(item, textField).t = "str"
           /\ Lookup(item, textField).v # <<>>

C22_JointOnlyIf ==
  \A g \in 1..Len(JointCalls) :
    LET key == JointCalls[g].keys[1]
        parent == getValueAtPath(source, Front(key))
    IN  /\ Contains(RunKeys, key)
        /\ \E i \in 1..Len(EffectivePatterns) :
             LET pattern == EffectivePatterns[i]
             IN  /\ EndsWith(key, pattern.descriptionPattern)
                 /\ IsObjectType(parent)
                 /\ NonEmptyTexts(Lookup(parent, pattern.linksKey),
                                  pattern.linkTextField)
        /\ \A j \in 1..Len(contexts) :
             ~Contains(Tail(JointCalls[g].keys), contexts[j].key)

\* --------------------------------------------------------------------------
\* C23: missingInTarget lists the leaf paths of the source that are not leaf
\* paths of the target, in the depth-first order of the source, and
\* extraInTarget the leaf paths of the target that are not leaf paths of the
\* source, in the depth-first order of the target, each path once.
\* --------------------------------------------------------------------------
\* the leaf paths of a tree in depth-first key order, every key a segment
RECURSIVE LeavesFrom(_, _, _)
LeavesFrom(x, prefix, i) ==
  IF i > Len(x.k) THEN <<>>
  ELSE (IF IsObjectType(x.c[i])
        THEN LeavesFrom(x.c[i], Append(prefix, x.k[i]), 1)
        ELSE <<Append(prefix, x.k[i])>>)
       \o LeavesFrom(x, prefix, i + 1)

LeafPaths(x) == LeavesFrom(x, <<>>, 1)

NoRepeats(seq) ==
  \A i, j \in 1..Len(seq) : seq[i] = seq[j] => i = j

C23_DiffOrder ==
  report # NoReport =>
    /\ report.missingInTarget
         = SelectSeq(LeafPaths(source),
                     LAMBDA q : ~Contains(LeafPaths(target), q))
    /\ report.extraInTarget
         = SelectSeq(LeafPaths(target),
                     LAMBDA q : ~Contains(LeafPaths(source), q))
    /\ NoRepeats(report.missingInTarget)
    /\ NoRepeats(report.extraInTarget)

\* --------------------------------------------------------------------------
\* C24 (as claimed): for every leaf path of the source, the reordered tree
\* holds the content's value at that path whenever the content has a value
\* there, and holds the source's value only when the content has none.
\* --------------------------------------------------------------------------
ContentPreferredAt(q) ==
  /\ getValueAtPath(target, q) # Undefined =>
       getValueAtPath(merged, q) = getValueAtPath(target, q)
  /\ getValueAtPath(merged, q) = getValueAtPath(source, q) =>
       \/ getValueAtPath(target, q) = Undefined
       \/ getValueAtPath(target, q) = getValueAtPath(source, q)

C24_ContentPreferred ==
  reorders = 1 =>
    \A i \in 1..Len(LeafPaths(source)) : ContentPreferredAt(LeafPaths(source)[i])

\* the containers above a path are of one kind in the source and the
\* content: plain objects both, or arrays of one length both
Aligned(q) ==
  \A n \in 1..(Len(q) - 1) :
    LET s == getValueAtPath(source, SubSeq(q, 1, n))
        c == getValueAtPath(target, SubSeq(q, 1, n))
    IN  \/ IsPlainObject(s) /\ IsPlainObject(c)
        \/ IsArray(s) /\ IsArray(c) /\ s.len = c.len

\* C24 (as amended): for every leaf path of the source whose enclosing
\* containers are of one kind on both sides (plain objects, or arrays of
\* equal length), the reordered tree holds the content's value whenever the
\* content has a value there, and the source's value only when it has none.
C24_ContentPreferredAligned ==
  reorders = 1 =>
    \A i \in 1..Len(LeafPaths(source)) :
      Aligned(LeafPaths(source)[i]) =>
        ContentPreferredAt(LeafPaths(source)[i])

\* a nested leaf of the source took the content's string, another leaf that
\* the content lacks kept the source's
C24_Witness ==
  /\ reorders = 1
  /\ \E i, j \in 1..Len(LeafPaths(source)) :
       LET q == LeafPaths(source)[i]
           r == LeafPaths(source)[j]
       IN  /\ Len(q) >= 2
           /\ Aligned(q)
           /\ getValueAtPath(target, q) = Leaf(<<"y">>)
           /\ getValueAtPath(source, q) = Leaf(<<"x">>)
           /\ getValueAtPath(merged, q) = Leaf(<<"y">>)
           /\ getValueAtPath(target, r) = Undefined
           /\ getValueAtPath(merged, r) = getValueAtPath(source, r)

\* a text with no layer of double quotes or backticks around it
Bare(text) ==
  /\ ~(Len(text) >= 2 /\ StartsWith(text, Quote) /\ EndsWithChar(text, Quote))
  /\ ~(Len(text) >= 2 /\ StartsWith(text, Backtick)
         /\ EndsWithChar(text, Backtick))

\* the response wraps the text in exactly one layer
OneLayer(wrapped, text) ==
  /\ Bare(text)
  /\ \E kind \in {"quotes", "backticks", "fence"} : wrapped = Wrap(kind, text)

\* --------------------------------------------------------------------------
\* C25: when the source value neither starts nor ends with a double quote,
\* cleanupTranslation of a response that wraps a text in exactly one layer of
\* double quotes, single backticks or a triple-backtick fence returns that
\* text, and a response without such a wrapper is returned unchanged.
\* --------------------------------------------------------------------------
C25_OneLayerStripped ==
  (/\ pc = "cleanupDone"
   /\ ~StartsWith(args.original, Quote)
   /\ ~EndsWithChar(args.original, Quote)) =>
    /\ \A text \in Texts :
         OneLayer(args.translated, text) => retval = text
    /\ Bare(args.translated) => retval = args.translated

\* the same for double quotes alone, around a text that holds no backtick,
\* under a source value that holds no double quote at all
C25_QuotesStripped ==
  (/\ pc = "cleanupDone"
   /\ ~Contains(args.original, Quote)) =>
    \A text \in Texts :
      (/\ Bare(text)
       /\ ~Contains(text, Backtick)
       /\ args.translated = Wrap("quotes", text)) => retval = text

\* a fenced text under an unquoted source value
C25_FencedInput ==
  ~(/\ pc = "cleanupDone"
    /\ args.original = <<"a">>
    /\ args.translated = Wrap("fence", <<"a">>)
    /\ retval = <<Backtick, Backtick, "a", Backtick, Backtick>>)

\* --------------------------------------------------------------------------
\* C26: every result key of translateMissingKeys is one of the missing keys
\* it was given, and no result (no joint-group anchor result in particular)
\* targets a key that already has a value in the target tree.
\* --------------------------------------------------------------------------
C26_OnlyMissingKeys ==
  (options.command \in {"translate", "sync"} /\ target # Undefined) =>
    \A i \in 1..Len(results) :
      /\ Contains(RunKeys, results[i].key)
      /\ getValueAtPath(target, results[i].key) = Undefined

\* the same for every result that is not an anchor of a joint group
C26_OnlyMissingKeysButAnchors ==
  (options.command \in {"translate", "sync"} /\ target # Undefined) =>
    \A i \in 1..Len(results) :
      \/ results[i].key \in linkTextKeysToSkip(RunKeys)
      \/ /\ Contains(RunKeys, results[i].key)
         /\ getValueAtPath(target, results[i].key) = Undefined

\* the saved file of a translate run lost the anchor text the target had
C26_AnchorOverwritten ==
  ~(/\ pc = "done"
    /\ source = SrcCard
    /\ target = TgtLinked
    /\ savedFile # Undefined
    /\ getValueAtPath(target, <<"card", "links", "0", "text">>) = Leaf(<<"l">>)
    /\ getValueAtPath(savedFile, <<"card", "links", "0", "text">>)
         # Leaf(<<"l">>))

\* a translate or sync --translate run went through its save and completed
CompletedWithSave ==
  /\ pc = "done"
  /\ \/ options.command = "translate"
     \/ options.command = "sync" /\ options.translate
  /\ ~options.dryRun
  /\ report # NoReport
  /\ report.missingInTarget # <<>>
  /\ savedFile # Undefined

\* --------------------------------------------------------------------------
\* C27: after a translate or sync --translate run completes without error,
\* comparing the source tree with the saved target tree reports zero missing
\* and zero extra keys, whatever provider calls failed or fell back.
\* --------------------------------------------------------------------------
C27_SavedInSync ==
  CompletedWithSave =>
    LET after == compareTranslations(source, savedFile)
    IN  /\ after.missingInTarget = <<>>
        /\ after.extraInTarget = <<>>

\* the same for a target that holds no container where the source holds a
\* leaf
C27_SavedInSyncShaped ==
  (CompletedWithSave /\ target # TgtTextObject) =>
    LET after == compareTranslations(source, savedFile)
    IN  /\ after.missingInTarget = <<>>
        /\ after.extraInTarget = <<>>

\* --------------------------------------------------------------------------
\* C28: for any combination of defaults, .transl8rc.json contents,
\* TRANSL8_CONCURRENCY and --concurrency flag, the concurrency cap that
\* loadConfig produces is an integer >= 1, so the pool dispatches at least
\* one item when items remain.
\* --------------------------------------------------------------------------
C28_CapPositiveInteger ==
  pc = "configDone" =>
    /\ retval.concurrency.js = "number"
    /\ retval.concurrency.den = 1
    /\ retval.concurrency.num >= 1
    /\ retval.started >= 1

\* the same when neither the file nor the flag gives a concurrency
C28_CapFromEnvOrDefault ==
  (/\ pc = "configDone"
   /\ parseConfigFile(args.file) = JsAbsent
   /\ args.flag = JsAbsent) =>
    /\ retval.concurrency.den = 1
    /\ retval.concurrency.num >= 1
    /\ retval.started >= 1

\* a file with "concurrency": 0 and nothing else set
C28_ZeroFromFile ==
  ~(/\ pc = "configDone"
    /\ args.file = [exists |-> TRUE, concurrency |-> JsNumber(0, 1)]
    /\ args.env = JsAbsent
    /\ args.flag = JsAbsent
    /\ retval.concurrency = JsNumber(0, 1)
    /\ retval.started = 0)

\* p is a prefix of q (or q itself)
IsPrefix(p, q) == Len(p) <= Len(q) /\ SubSeq(q, 1, Len(p)) = p

\* the key paths that are neither a prefix nor an extension of the path
\* setValueAtPath was called with
Unrelated ==
  {q \in SetPaths : ~IsPrefix(q, args.keyPath) /\ ~IsPrefix(args.keyPath, q)}

LeafPathsBut(x, keyPaths) ==
  {q \in ToSet(LeafPaths(x)) : ~Contains(keyPaths, q)}

\* --------------------------------------------------------------------------
\* C30: the prune command only removes: the leaf paths of the saved file are
\* the original target's leaf paths minus extraInTarget, each with the value
\* it had in the target, and no leaf path absent from the target is added.
\* --------------------------------------------------------------------------
C30_PruneOnlyRemoves ==
  (pc = "done" /\ savedFile # Undefined) =>
    /\ ToSet(LeafPaths(savedFile)) = LeafPathsBut(target, report.extraInTarget)
    /\ \A q \in ToSet(LeafPaths(savedFile)) :
         getValueAtPath(savedFile, q) = getValueAtPath(target, q)

\* the same for a target that misses no key of the source, both without an
\* empty key or an array
C30_PruneOnlyRemovesComplete ==
  (/\ pc = "done"
   /\ savedFile # Undefined
   /\ report.missingInTarget = <<>>
   /\ \A q \in ToSet(LeafPaths(source)) \cup ToSet(LeafPaths(target)) :
        /\ ~Contains(q, "")
        /\ \A n \in 1..Len(q) :
             /\ ~IsArray(getValueAtPath(source, SubSeq(q, 1, n)))
             /\ ~IsArray(getValueAtPath(target, SubSeq(q, 1, n)))) =>
    /\ ToSet(LeafPaths(savedFile)) = LeafPathsBut(target, report.extraInTarget)
    /\ \A q \in ToSet(LeafPaths(savedFile)) :
         getValueAtPath(savedFile, q) = getValueAtPath(target, q)

\* a pruned file that holds a key the target never had, with the source's
\* text
C30_SourceTextAdded ==
  ~(/\ pc = "done"
    /\ source = Obj(<<"a">>, <<Obj(<<"a">>, <<Leaf(<<"x">>)>>)>>)
    /\ target = Obj(<<"a">>, <<Leaf(<<"y">>)>>)
    /\ report.extraInTarget = <<<<"a">>>>
    /\ savedFile = source)
====
